---- MODULE Spec2Model ----
(***************************************************************************)
(* A state-machine model of the OIC-LogLens match-and-enrich pipeline:     *)
(*   - the deduplicating ingest gate (src/src/ingestion_service.py,        *)
(*     src/src/db.py) and the background batch job (src/src/main.py);      *)
(*   - the knowledge graph (src/src/graph_service.py);                     *)
(*   - the search pipeline with LLM rerank (src/src/search_service.py);    *)
(*   - the AIOps variant: MERGE upsert and the threshold policy            *)
(*     (src/temp/AIOps/services).                                          *)
(* Each subsystem has its own variables, initial predicate and             *)
(* specification; the actions of one subsystem leave the others alone.     *)
(***************************************************************************)
EXTENDS Integers, Sequences, FiniteSets, TLC

VARIABLES
    logs,       \* OLL_LOGS: the set of committed rows
    ing,        \* per caller: the frame of its ingest_log call
    job,        \* _jobs[job_id]: the batch job entry (one job)
    bpc,        \* the batch worker's position in _process_batch
    braw        \* raw_logs handed to _process_batch

VARIABLES
    nodes,      \* OIC_KB_GRAPH_NODES: the committed rows
    edges,      \* OIC_KB_GRAPH_EDGES: the committed rows
    gw,         \* per graph writer: its call's frame and its connection's uncommitted rows
    kglogs,     \* history: the (normalized log, Jira id) pairs add_log_to_graph committed
    insights    \* the match enrich_search_results handled last, with its kg_insights

VARIABLES
    srch        \* the frame of the search_log call

VARIABLES
    ss_logs,    \* SS_ERROR_LOGS: the committed rows
    aiops       \* the AIOpsService: its thresholds and the last calls' results

VARIABLES
    mb          \* the frame of the merge_batch or ingest_logs call

VARIABLES
    md          \* the last semantic_search / match_error call: its inputs and what it returned

VARIABLES
    pr          \* the frame of the _persist_relationships call

VARIABLES
    snap        \* the last response of get_ingest_status

ingestVars == <<logs, ing, job, bpc, braw>>
graphVars == <<nodes, edges, gw, kglogs, insights>>
searchVars == <<srch>>
aiopsVars == <<ss_logs, aiops>>
batchVars == <<mb>>
decideVars == <<md>>
persistVars == <<pr>>
statusVars == <<snap>>

vars == <<ingestVars, graphVars, searchVars, aiopsVars, batchVars, decideVars, persistVars, statusVars>>

notIngest == <<graphVars, searchVars, aiopsVars, batchVars, decideVars, persistVars, statusVars>>
notGraph == <<ingestVars, searchVars, aiopsVars, batchVars, decideVars, persistVars, statusVars>>
notSearch == <<ingestVars, aiopsVars, batchVars, decideVars, persistVars, statusVars>>
notAiops == <<ingestVars, graphVars, searchVars, batchVars, decideVars, persistVars, statusVars>>
notMergeBatch == <<ingestVars, graphVars, searchVars, aiops, decideVars, persistVars, statusVars>>
notDecide == <<ingestVars, graphVars, searchVars, batchVars, persistVars, statusVars>>
notPersist == <<ingestVars, searchVars, aiopsVars, batchVars, decideVars, statusVars>>
notStatus == <<ingestVars, graphVars, searchVars, aiopsVars, batchVars, decideVars, persistVars>>

\* Python's None, per type of the value it stands in for.
NoText == <<>>        \* a missing text (an error detail)
NoId == 0             \* a missing row id or digest

\* A string the graph may hold as a node value.  `head` is its first characters,
\* up to where a node id is cut off; `tail` is what follows (empty for a short
\* string); `n` numbers the strings made from a digest.
Str(head, tail, n) == [head |-> head, tail |-> tail, n |-> n]
S(head) == Str(head, "", 0)
NoStr == S("")                           \* None, or the empty string

\* A Jira id is a URL ".../browse/<ticket>" or a bare ticket id; `base` is the part
\* up to the last "/" ("" when the id holds no "/"), `ticket` the rest.
JiraId(base, ticket) == [base |-> base, ticket |-> ticket]
NoJira == JiraId("", NoStr)              \* None

(***************************************************************************)
(* Bounds of the model.                                                    *)
(***************************************************************************)
MaxLogs == 3          \* ingest calls are started while OLL_LOGS holds fewer rows
MaxBatch == 2         \* longest raw_logs list handed to a batch job

(***************************************************************************)
(* Raw records.  A raw log is a JSON document; what matters to the         *)
(* fingerprint is the order in which an object's keys were written, so a   *)
(* raw log is modelled as the sequence of its (key, value) members in      *)
(* document order.  Keys are ordered as their numbers.                     *)
(***************************************************************************)
RawKeys == {1, 2}
RawVals == {1, 2}

RawLogs ==
    { <<[k |-> a, v |-> x], [k |-> b, v |-> y]>> :
        <<a, b, x, y>> \in { t \in RawKeys \X RawKeys \X RawVals \X RawVals : t[1] # t[2] } }

\* The members of a document with the key-smallest one first.
RECURSIVE SortByKey(_)
SortByKey(doc) ==
    IF Len(doc) = 0 THEN <<>>
    ELSE LET i == CHOOSE i \in 1..Len(doc) : \A j \in 1..Len(doc) : doc[i].k <= doc[j].k
             rest == [n \in 1..(Len(doc) - 1) |-> IF n < i THEN doc[n] ELSE doc[n + 1]]
         IN  <<doc[i]>> \o SortByKey(rest)

\* json.dumps that ignores sort_keys.
json_dumps_document_order(doc, sort_keys) == doc

\* json.dumps(raw_log, sort_keys=...): the text, as the sequence of members written.
JsonDumps(doc, sort_keys) == IF sort_keys THEN SortByKey(doc) ELSE doc

\* hashlib.sha256(text).hexdigest(): a number per text, different for different
\* texts (collisions are not modelled).
RECURSIVE Sha256(_)
Sha256(text) ==
    IF Len(text) = 0 THEN 1
    ELSE (Head(text).k * 4 + Head(text).v) + 16 * Sha256(Tail(text))

\* The fingerprint ingest_log computes before the duplicate check.
LogHash(raw_log) == Sha256(JsonDumps(raw_log, TRUE))

(***************************************************************************)
(* Collaborators of ingest_log.                                            *)
(***************************************************************************)
\* normalize_log(raw_log): what the LLM may hand back for a raw log.
NormalizedLogs ==
    { [jira_id |-> NoJira, flow_code |-> "F1", error_code |-> "E1"],
      [jira_id |-> JiraId("browse", S("J1")), flow_code |-> "F1", error_code |-> "E2"] }

NoNormalizedLog == [jira_id |-> NoJira, flow_code |-> "", error_code |-> ""]

\* Exceptions raised inside ingest_log's try block.
HTTPException(code, detail) == [kind |-> "HTTPException", status_code |-> code, detail |-> detail]
OtherException(detail)      == [kind |-> "Exception", status_code |-> 0, detail |-> detail]

\* `except Exception as e` of ingest_log: every exception raised in the try block,
\* the HTTPException of the duplicate branch included, leaves as a 500 whose detail
\* quotes the original.
IngestLogExcept(e) ==
    HTTPException(500, <<"Ingestion failed">> \o e.detail)

\* CHECK_DUPLICATE_SQL and `count > 0`.
check_duplicate_offbyone(log_hash) ==
    Cardinality({ row \in logs : row.log_hash = log_hash }) > 1

\* A gate that finds nothing.
check_duplicate_never(log_hash) == FALSE

check_duplicate(log_hash) ==
    Cardinality({ row \in logs : row.log_hash = log_hash }) > 0

\* Step 1.5: the extracted Jira id, or one generated from the fingerprint.
JiraIdOf(normalized_log, log_hash) ==
    IF normalized_log.jira_id # NoJira THEN normalized_log.jira_id
    ELSE JiraId("browse", Str("OLL", "", log_hash))

\* uuid.uuid4(): an id no row holds yet.
FreshLogId == Cardinality(logs) + 1

\* _build_record: the row for INSERT_LOG_SQL; the fingerprint is computed again.
build_record(normalized_log, raw_log, jira_id) ==
    [ log_id     |-> FreshLogId,
      log_hash   |-> Sha256(JsonDumps(raw_log, TRUE)),
      jira_id    |-> jira_id,
      flow_code  |-> normalized_log.flow_code,
      error_code |-> normalized_log.error_code,
      raw_json   |-> JsonDumps(raw_log, FALSE) ]

\* INSERT_LOG_SQL: a plain INSERT, one more row whatever the table holds.
insert_row_keyed(table, record) ==
    IF \E row \in table : row.log_hash = record.log_hash THEN table ELSE table \cup {record}

insert_row(table, record) == table \cup {record}

\* insert_log's except: conn.rollback() drops the row the failed INSERT or commit
\* left on the connection.
insert_log_no_rollback(table, record) == table \cup {record}

insert_log_rollback(table, record) == table

(***************************************************************************)
(* ingest_log, one action per suspension point.  A frame is idle, at one   *)
(* of the steps, or done with the response the caller sees.                *)
(***************************************************************************)
Callers == {"r1", "r2", "w"}

IdleFrame ==
    [ pc |-> "idle", raw_log |-> <<>>, log_hash |-> NoId, normalized_log |-> NoNormalizedLog,
      jira_id |-> NoJira, status_code |-> 0, detail |-> NoText, log_id |-> NoId ]

\* A frame that left ingest_log by the exception e.
Raised(f, e) ==
    [f EXCEPT !.pc = "done", !.status_code = IngestLogExcept(e).status_code,
              !.detail = IngestLogExcept(e).detail, !.log_id = NoId]

\* The caller enters ingest_log: Step 0 computes the fingerprint.
IngestCall(c, raw_log) ==
    /\ ing[c].pc \in {"idle", "done"}
    /\ ing' = [ing EXCEPT ![c] = [IdleFrame EXCEPT !.pc = "check", !.raw_log = raw_log,
                                                   !.log_hash = LogHash(raw_log)]]
    /\ UNCHANGED logs

\* Step 0: check_duplicate; a hit raises the 409, a database error propagates.
CheckDuplicate(c) ==
    /\ ing[c].pc = "check"
    /\ \E db_error \in BOOLEAN :
         ing' = [ing EXCEPT ![c] =
                   IF db_error THEN Raised(@, OtherException(<<"Duplicate check failed">>))
                   ELSE IF check_duplicate(@.log_hash)
                        THEN Raised(@, HTTPException(409, <<"Duplicate log">>))
                        ELSE [@ EXCEPT !.pc = "normalize"]]
    /\ UNCHANGED logs

\* Step 1 and 1.5: normalize_log, then the Jira id.
Normalize(c) ==
    /\ ing[c].pc = "normalize"
    /\ \/ \E n \in NormalizedLogs :
            ing' = [ing EXCEPT ![c] = [@ EXCEPT !.pc = "embed", !.normalized_log = n,
                                                !.jira_id = JiraIdOf(n, ing[c].log_hash)]]
       \/ ing' = [ing EXCEPT ![c] = Raised(@, OtherException(<<"Normalization failed">>))]
    /\ UNCHANGED logs

\* Step 2: generate_embedding and get_embedding_text.
Embed(c) ==
    /\ ing[c].pc = "embed"
    /\ \/ ing' = [ing EXCEPT ![c] = [@ EXCEPT !.pc = "insert"]]
       \/ ing' = [ing EXCEPT ![c] = Raised(@, OtherException(<<"Embedding failed">>))]
    /\ UNCHANGED logs

\* Step 3: insert_log: INSERT and commit, or rollback and re-raise.
InsertLog(c) ==
    /\ ing[c].pc = "insert"
    /\ \/ LET record == build_record(ing[c].normalized_log, ing[c].raw_log, ing[c].jira_id)
          IN  /\ logs' = insert_row(logs, record)
              /\ ing' = [ing EXCEPT ![c] = [@ EXCEPT !.pc = "done", !.status_code = 200,
                                                     !.log_id = record.log_id]]
       \/ /\ ing' = [ing EXCEPT ![c] = Raised(@, OtherException(<<"Insert failed">>))]
          /\ logs' = insert_log_rollback(logs, build_record(ing[c].normalized_log, ing[c].raw_log,
                                                            ing[c].jira_id))

IngestStep(c) ==
    \/ CheckDuplicate(c)
    \/ Normalize(c)
    \/ Embed(c)
    \/ InsertLog(c)

(***************************************************************************)
(* The background batch job: ingest_database creates the entry of _jobs,   *)
(* _process_batch works through raw_logs one ingest_log call at a time.    *)
(***************************************************************************)
NoJob ==
    [ status |-> "none", total_logs |-> 0, processed |-> 0, successful |-> 0,
      duplicates |-> 0, failed |-> 0, current_log |-> NoId, results |-> <<>> ]

\* Raw logs a batch query returns: two key orders of one document, and another one.
BatchRawLogs == { raw \in RawLogs : raw[2].v = 1 /\ (raw[1].k = 1 \/ raw[1].v = 1) }

BatchInputs == UNION { [1..n -> BatchRawLogs] : n \in 0..MaxBatch }

\* ingest_database: the job entry, and the task queued.
IngestDatabase(raw_logs) ==
    /\ bpc = "none"
    /\ job' = [NoJob EXCEPT !.status = "pending", !.total_logs = Len(raw_logs)]
    /\ braw' = raw_logs
    /\ bpc' = "queued"
    /\ UNCHANGED <<logs, ing>>

\* _process_batch starts.
BatchStart ==
    /\ bpc = "queued"
    /\ job' = [job EXCEPT !.status = "in_progress"]
    /\ bpc' = "loop"
    /\ UNCHANGED <<logs, ing, braw>>

\* A final status that takes a job of duplicates for completed.
final_status_ignoring_duplicates(j) ==
    IF j.failed = 0 THEN "completed"
    ELSE IF j.successful > 0 THEN "completed"
    ELSE "completed"

\* The status a finished job gets.
FinalStatus(j) ==
    IF j.failed = 0 /\ j.duplicates = 0 THEN "completed"
    ELSE IF j.successful > 0 THEN "completed"
    ELSE "failed"

\* The head of the for loop: the next log (current_log = i, ingest_log is called),
\* or, past the last one, the job is marked and current_log cleared.
BatchLoop ==
    /\ bpc = "loop"
    /\ IF job.processed < Len(braw)
       THEN /\ job' = [job EXCEPT !.current_log = job.processed + 1]
            /\ IngestCall("w", braw[job.processed + 1])
            /\ bpc' = "ingest"
       ELSE /\ job' = [job EXCEPT !.status = FinalStatus(job), !.current_log = NoId]
            /\ bpc' = "finished"
            /\ UNCHANGED <<logs, ing>>
    /\ UNCHANGED braw

\* ingest_log runs on the worker's thread.
BatchIngest ==
    /\ bpc = "ingest"
    /\ IngestStep("w")
    /\ UNCHANGED <<job, bpc, braw>>

\* The branch of the try statement the call's outcome takes.
BatchOutcome(f) ==
    IF f.status_code = 200 THEN "success"
    ELSE IF f.status_code = 409 THEN "duplicate"
    ELSE "error"

batch_result_unindexed(i, f) ==
    [ log_index |-> 1, log_id |-> f.log_id, status |-> BatchOutcome(f), message |-> f.detail ]

BatchResult(i, f) ==
    [ log_index |-> i, log_id |-> f.log_id, status |-> BatchOutcome(f), message |-> f.detail ]

\* ingest_log has returned or raised: the first statement of the branch taken
\* (success appends its result, the other branches count first).
BatchHandle ==
    /\ bpc = "ingest"
    /\ ing["w"].pc = "done"
    /\ LET f == ing["w"]
           i == job.current_log
       IN  job' = CASE BatchOutcome(f) = "success" ->
                         [job EXCEPT !.results = Append(@, BatchResult(i, f))]
                    [] BatchOutcome(f) = "duplicate" ->
                         [job EXCEPT !.duplicates = @ + 1]
                    [] OTHER ->
                         [job EXCEPT !.failed = @ + 1]
    /\ bpc' = "handled"
    /\ UNCHANGED <<logs, ing, braw>>

\* The second statement of the branch.
BatchHandle2 ==
    /\ bpc = "handled"
    /\ LET f == ing["w"]
           i == job.current_log
       IN  job' = IF BatchOutcome(f) = "success"
                  THEN [job EXCEPT !.successful = @ + 1]
                  ELSE [job EXCEPT !.results = Append(@, BatchResult(i, f))]
    /\ bpc' = "count"
    /\ UNCHANGED <<logs, ing, braw>>

\* job["processed"] = i, and (after the sleep) the next iteration.
BatchProcessed ==
    /\ bpc = "count"
    /\ job' = [job EXCEPT !.processed = job.current_log]
    /\ bpc' = "loop"
    /\ UNCHANGED <<logs, ing, braw>>

\* get_ingest_status: 404 for an unknown job, else the fields of the job entry as
\* they are at the time of the call.
NoStatus == [status_code |-> 0, body |-> NoJob]

GetIngestStatus ==
    /\ snap' = IF job.status = "none" THEN [status_code |-> 404, body |-> NoJob]
               ELSE [status_code |-> 200, body |-> job]
    /\ UNCHANGED notStatus

StatusInit == snap = NoStatus

IngestInit ==
    /\ logs = {}
    /\ ing = [c \in Callers |-> IdleFrame]
    /\ job = NoJob
    /\ bpc = "none"
    /\ braw = <<>>

(***************************************************************************)
(* The knowledge graph (graph_service.py).  A writer holds one connection: *)
(* it sees the committed rows and its own uncommitted ones, and nobody     *)
(* sees its rows before it commits.                                        *)
(***************************************************************************)
Writers == {"g1", "g2"}

NoConfidence == -1    \* confidence=None

\* json.dumps(properties): the properties written by this module's callers.
Props(trigger_type, full_url, confidence) ==
    [trigger_type |-> trigger_type, full_url |-> full_url, confidence |-> confidence]
NoProps == Props("", NoJira, NoConfidence)      \* properties=None

\* _make_node_id: f"{node_type}:{node_value}"[:200] keeps the head of the value.
make_node_id(node_type, node_value) == [type |-> node_type, head |-> node_value.head, n |-> node_value.n]
NoNode == make_node_id("", NoStr)

\* jira_id.split("/")[-1] if "/" in jira_id else jira_id
TicketId(jira_id) == jira_id.ticket

\* An INSERT without the MERGE's ON (tgt.NODE_ID = src.NODE_ID) test.
upsert_node_always(seen, mine, node_type, node_value, properties) ==
    mine \cup { [ node_id |-> make_node_id(node_type, node_value), node_type |-> node_type,
                  node_value |-> node_value, properties |-> properties ] }

\* UPSERT_NODE_SQL through _upsert_node: the rows of the connection after the MERGE.
\* node_value[:500] keeps head and tail.
upsert_node(seen, mine, node_type, node_value, properties) ==
    IF \E n \in seen \cup mine : n.node_id = make_node_id(node_type, node_value)
    THEN mine
    ELSE mine \cup { [ node_id |-> make_node_id(node_type, node_value), node_type |-> node_type,
                       node_value |-> node_value, properties |-> properties ] }

\* uuid.uuid4() for an edge: an id no row holds, committed or not.
AllEdgeIds == { e.edge_id : e \in edges \cup UNION { gw[w].new_edges : w \in Writers } }
FreshEdgeId ==
    CHOOSE i \in 1..(Cardinality(AllEdgeIds) + 1) :
        i \notin AllEdgeIds /\ \A j \in 1..(Cardinality(AllEdgeIds) + 1) : j \notin AllEdgeIds => i <= j

\* _insert_edge: CHECK_EDGE_SQL, then INSERT_EDGE_SQL when the count is 0.
insert_edge_unchecked(seen, mine, from_node, to_node, edge_type, properties) ==
    mine \cup { [ edge_id |-> FreshEdgeId, from_node |-> from_node, to_node |-> to_node,
                  edge_type |-> edge_type, properties |-> properties ] }

insert_edge(seen, mine, from_node, to_node, edge_type, properties) ==
    IF Cardinality({ e \in seen \cup mine : /\ e.from_node = from_node
                                            /\ e.to_node = to_node
                                            /\ e.edge_type = edge_type }) > 0
    THEN mine
    ELSE mine \cup { [ edge_id |-> FreshEdgeId, from_node |-> from_node, to_node |-> to_node,
                       edge_type |-> edge_type, properties |-> properties ] }

\* The entity values add_log_to_graph extracts from a normalized log.
KgLog(flow_code, trigger_type, error_code, endpoint_name, root_cause) ==
    [ flow_code |-> flow_code, trigger_type |-> trigger_type, error_code |-> error_code,
      endpoint_name |-> endpoint_name, root_cause |-> root_cause ]

\* The calls of add_log_to_graph the model makes: two tickets on one flow with
\* different errors, a third with the first one's error and the second one's root
\* cause, a log with neither flow nor error, one with a flow only, one with an
\* error, a long root cause and no Jira id, and a recurrence of the first log's
\* flow and error under another ticket.
KgInputs ==
    { <<KgLog(S("F1"), "REST", S("E1"), S("P1"), S("R1")), JiraId("browse", S("T1"))>>,
      <<KgLog(S("F1"), "",     S("E2"), S("P2"), S("R2")), JiraId("", S("T2"))>>,
      <<KgLog(S("F2"), "",     S("E1"), NoStr,   S("R2")), JiraId("browse", S("T3"))>>,
      <<KgLog(NoStr,   "",     NoStr,   S("P1"), S("R1")), JiraId("browse", S("T1"))>>,
      <<KgLog(S("F1"), "SOAP", NoStr,   NoStr,   NoStr),   JiraId("browse", S("T2"))>>,
      <<KgLog(NoStr,   "",     S("E2"), NoStr,   Str("R1", "more", 0)), NoJira>>,
      <<KgLog(S("F1"), "REST", S("E1"), S("P1"), S("R1")), JiraId("browse", S("T2"))>> }

\* A call of add_jira_relationship.
Rel(from_jira_id, to_jira_id, edge_type, confidence) ==
    [from_jira_id |-> from_jira_id, to_jira_id |-> to_jira_id, edge_type |-> edge_type,
     confidence |-> confidence]

\* The calls of add_jira_relationship the model makes: from T1, in either form of
\* its Jira id, to T2, of both types, with a confidence of 0, 50 or 90.
RelInputs ==
    { Rel(JiraId("browse", S("T1")), JiraId("browse", S("T2")), "DUPLICATE_OF", 90),
      Rel(JiraId("", S("T1")),       JiraId("browse", S("T2")), "DUPLICATE_OF", 50),
      Rel(JiraId("browse", S("T1")), JiraId("browse", S("T2")), "RELATED_TO", 50),
      Rel(JiraId("browse", S("T1")), JiraId("browse", S("T2")), "RELATED_TO", 0) }

NoKgLog == KgLog(NoStr, "", NoStr, NoStr, NoStr)
NoRel == Rel(NoJira, NoJira, "", NoConfidence)

\* A match, as search_log builds it from a row of the log store.
Match(jira_id, flow_code, error_code) ==
    [jira_id |-> jira_id, flow_code |-> flow_code, error_code |-> error_code]

NoInsights ==
    [ present |-> FALSE, root_cause |-> NoStr, endpoints |-> {}, recurrence_count |-> 0,
      related_tickets |-> {} ]

\* The enrichment result before any match was enriched; a graph write begins a new
\* request, with no result yet.
NoEnrichment == [match |-> Match(NoJira, NoStr, NoStr), kg_insights |-> NoInsights]

IdleWriter ==
    [ pc |-> "idle", op |-> "", log |-> NoKgLog, jira_id |-> NoJira, rel |-> NoRel,
      new_nodes |-> {}, new_edges |-> {}, ret |-> "", skipped |-> FALSE ]

\* The writer's call ends with False: the exception handlers roll back (or the
\* connection closes uncommitted) and the error is logged, not raised.
ReturnsFalse(f) == [IdleWriter EXCEPT !.ret = "False"]

\* The writer's call ends with True, after its commit.
ReturnsTrue(f) == [IdleWriter EXCEPT !.ret = "True"]

\* A skip test that looks at every extracted value.
skip_if_nothing(log) ==
    /\ log.flow_code = NoStr /\ log.error_code = NoStr
    /\ log.endpoint_name = NoStr /\ log.root_cause = NoStr

\* if not flow_code and not error_code
skip_write(log) == log.flow_code = NoStr /\ log.error_code = NoStr

\* add_log_to_graph is called: the values are extracted; without flow_code and
\* error_code the write is skipped with a warning, else a connection is opened.
KgBegin(w, log, jira_id) ==
    /\ gw[w].pc = "idle"
    /\ \E conn_error \in BOOLEAN :
         gw' = [gw EXCEPT ![w] =
                  IF skip_write(log) THEN [ReturnsFalse(gw[w]) EXCEPT !.skipped = TRUE]
                  ELSE IF conn_error THEN ReturnsFalse(gw[w])
                  ELSE [IdleWriter EXCEPT !.op = "log", !.log = log, !.jira_id = jira_id,
                                          !.pc = "nodes"]]
    /\ insights' = NoEnrichment
    /\ UNCHANGED <<nodes, edges, kglogs>>

\* The node ids add_log_to_graph holds after the upserts (None where the value is missing).
FlowNode(f) == IF f.log.flow_code # NoStr     THEN make_node_id("FlowCode", f.log.flow_code)      ELSE NoNode
ErrorNode(f) == IF f.log.error_code # NoStr    THEN make_node_id("Error", f.log.error_code)        ELSE NoNode
EpNode(f) == IF f.log.endpoint_name # NoStr THEN make_node_id("Endpoint", f.log.endpoint_name)  ELSE NoNode
RcNode(f) == IF f.log.root_cause # NoStr    THEN make_node_id("RootCause", f.log.root_cause)    ELSE NoNode
JiraNode(f) == IF f.jira_id # NoJira THEN make_node_id("JiraTicket", TicketId(f.jira_id))          ELSE NoNode

\* The five conditional _upsert_node calls, in order.
KgUpsertNodes(f) ==
    LET n1 == IF f.log.flow_code # NoStr
              THEN upsert_node(nodes, {}, "FlowCode", f.log.flow_code,
                               IF f.log.trigger_type # "" THEN Props(f.log.trigger_type, NoJira, NoConfidence)
                               ELSE NoProps)
              ELSE {}
        n2 == IF f.log.error_code # NoStr THEN upsert_node(nodes, n1, "Error", f.log.error_code, NoProps) ELSE n1
        n3 == IF f.log.endpoint_name # NoStr THEN upsert_node(nodes, n2, "Endpoint", f.log.endpoint_name, NoProps) ELSE n2
        n4 == IF f.log.root_cause # NoStr THEN upsert_node(nodes, n3, "RootCause", f.log.root_cause, NoProps) ELSE n3
    IN  IF f.jira_id # NoJira
        THEN upsert_node(nodes, n4, "JiraTicket", TicketId(f.jira_id), Props("", f.jira_id, NoConfidence))
        ELSE n4

KgNodes(w) ==
    /\ gw[w].pc = "nodes"
    /\ \/ gw' = [gw EXCEPT ![w] = [@ EXCEPT !.pc = "edge1", !.new_nodes = KgUpsertNodes(gw[w])]]
       \/ gw' = [gw EXCEPT ![w] = ReturnsFalse(@)]
    /\ UNCHANGED <<nodes, edges, kglogs, insights>>

\* The k-th conditional _insert_edge call of add_log_to_graph: its end nodes and type.
KgEdgeOf(f, k) ==
    CASE k = 1 -> <<FlowNode(f),  ErrorNode(f), "HAD_ERROR">>
      [] k = 2 -> <<ErrorNode(f), EpNode(f),    "ON_ENDPOINT">>
      [] k = 3 -> <<ErrorNode(f), RcNode(f),    "HAS_ROOT_CAUSE">>
      [] k = 4 -> <<FlowNode(f),  JiraNode(f),  "LOGGED_IN">>

KgEdgeStep(w, k, pc, next) ==
    /\ gw[w].pc = pc
    /\ \/ LET f == gw[w]
              e == KgEdgeOf(f, k)
          IN  gw' = [gw EXCEPT ![w] =
                       [@ EXCEPT !.pc = next,
                                 !.new_edges = IF e[1] # NoNode /\ e[2] # NoNode
                                               THEN insert_edge(edges, f.new_edges, e[1], e[2], e[3], NoProps)
                                               ELSE f.new_edges]]
       \/ gw' = [gw EXCEPT ![w] = ReturnsFalse(@)]
    /\ UNCHANGED <<nodes, edges, kglogs, insights>>

KgEdges(w) ==
    \/ KgEdgeStep(w, 1, "edge1", "edge2")
    \/ KgEdgeStep(w, 2, "edge2", "edge3")
    \/ KgEdgeStep(w, 3, "edge3", "edge4")
    \/ KgEdgeStep(w, 4, "edge4", "commit")

\* conn.commit(): the connection's rows become everybody's; or the commit fails.
KgCommit(w) ==
    /\ gw[w].pc = "commit"
    /\ \/ /\ nodes' = nodes \cup gw[w].new_nodes
          /\ edges' = edges \cup gw[w].new_edges
          /\ kglogs' = kglogs \cup {<<gw[w].log, gw[w].jira_id>>}
          /\ gw' = [gw EXCEPT ![w] = ReturnsTrue(@)]
       \/ /\ gw' = [gw EXCEPT ![w] = ReturnsFalse(@)]
          /\ UNCHANGED <<nodes, edges, kglogs>>
    /\ UNCHANGED insights

\* add_jira_relationship is called: the ticket node ids, the properties, a connection.
RelBegin(w, rel) ==
    /\ gw[w].pc = "idle"
    /\ \/ gw' = [gw EXCEPT ![w] = [IdleWriter EXCEPT !.op = "rel", !.rel = rel, !.pc = "rel_edge"]]
       \/ gw' = [gw EXCEPT ![w] = ReturnsFalse(@)]
    /\ insights' = NoEnrichment
    /\ UNCHANGED <<nodes, edges, kglogs>>

\* {"confidence": confidence} if confidence else None
RelProps(confidence) ==
    IF confidence # NoConfidence /\ confidence # 0 THEN Props("", NoJira, confidence) ELSE NoProps

RelFrom(rel) == make_node_id("JiraTicket", TicketId(rel.from_jira_id))
RelTo(rel) == make_node_id("JiraTicket", TicketId(rel.to_jira_id))

\* Its one _insert_edge call.
RelEdge(w) ==
    /\ gw[w].pc = "rel_edge"
    /\ \/ LET rel == gw[w].rel
          IN  gw' = [gw EXCEPT ![w] =
                       [@ EXCEPT !.pc = "rel_commit",
                                 !.new_edges = insert_edge(edges, {}, RelFrom(rel), RelTo(rel),
                                                           rel.edge_type, RelProps(rel.confidence))]]
       \/ gw' = [gw EXCEPT ![w] = ReturnsFalse(@)]
    /\ UNCHANGED <<nodes, edges, kglogs, insights>>

RelCommit(w) ==
    /\ gw[w].pc = "rel_commit"
    /\ \/ /\ edges' = edges \cup gw[w].new_edges
          /\ gw' = [gw EXCEPT ![w] = ReturnsTrue(@)]
       \/ /\ gw' = [gw EXCEPT ![w] = ReturnsFalse(@)]
          /\ UNCHANGED edges
    /\ UNCHANGED <<nodes, kglogs, insights>>

(***************************************************************************)
(* enrich_search_results, for one match.                                   *)
(***************************************************************************)
\* GET_KG_INSIGHTS_SQL: the edges leaving :node_id, joined to both end nodes.
get_kg_insights_unscoped(node_id) ==
    { [node_type |-> n2.node_type, node_value |-> n2.node_value, edge_type |-> e.edge_type] :
        <<e, n2>> \in { p \in edges \X nodes :
                          /\ \E n1 \in nodes : n1.node_id = p[1].from_node
                          /\ p[2].node_id = p[1].to_node } }

get_kg_insights(node_id) ==
    { [node_type |-> n2.node_type, node_value |-> n2.node_value, edge_type |-> e.edge_type] :
        <<e, n2>> \in { p \in edges \X nodes :
                          /\ \E n1 \in nodes : n1.node_id = p[1].from_node /\ n1.node_id = node_id
                          /\ p[2].node_id = p[1].to_node } }

\* GET_RECURRENCE_SQL
get_recurrence(flow_node, error_node) ==
    Cardinality({ e \in edges : /\ e.from_node = flow_node
                                /\ e.edge_type = "HAD_ERROR"
                                /\ e.to_node = error_node })

\* GET_RELATED_TICKETS_SQL
get_related_tickets(jira_node) ==
    { n2.node_value :
        n2 \in { n \in nodes : \E e \in edges : /\ e.from_node = jira_node
                                                 /\ e.edge_type \in {"DUPLICATE_OF", "RELATED_TO"}
                                                 /\ e.to_node = n.node_id } }

\* The kg_insights a match may get.  The rows of a query come in no stated order:
\* root_cause is the value of whichever HAS_ROOT_CAUSE row comes last, endpoints
\* holds the values of the ON_ENDPOINT rows.  A match without Jira id raises, and
\* the handler leaves it without kg_insights.
KgInsights(match) ==
    IF match.jira_id = NoJira THEN {NoInsights}
    ELSE LET jira_node  == make_node_id("JiraTicket", TicketId(match.jira_id))
             flow_node  == IF match.flow_code # NoStr THEN make_node_id("FlowCode", match.flow_code) ELSE NoNode
             error_node == IF match.error_code # NoStr THEN make_node_id("Error", match.error_code) ELSE NoNode
             rows       == IF error_node # NoNode THEN get_kg_insights(error_node) ELSE {}
             causes     == { r.node_value : r \in { x \in rows : x.edge_type = "HAS_ROOT_CAUSE" } }
         IN  { [ present |-> TRUE,
                 root_cause |-> rc,
                 endpoints |-> { r.node_value : r \in { x \in rows : x.edge_type = "ON_ENDPOINT" } },
                 recurrence_count |-> IF flow_node # NoNode /\ error_node # NoNode
                                      THEN get_recurrence(flow_node, error_node) ELSE 0,
                 related_tickets |-> get_related_tickets(jira_node) ] :
               rc \in IF causes = {} THEN {NoStr} ELSE causes }

\* The match of a log the graph holds.
MatchOf(kg) == Match(kg[2], kg[1].flow_code, kg[1].error_code)

\* enrich_search_results on the match of a stored log; a failing graph read leaves
\* the match as it came.
Enrich(match) ==
    /\ \/ \E i \in KgInsights(match) : insights' = [match |-> match, kg_insights |-> i]
       \/ insights' = [match |-> match, kg_insights |-> NoInsights]
    /\ UNCHANGED <<nodes, edges, gw, kglogs>>

GraphInit ==
    /\ nodes = {}
    /\ edges = {}
    /\ gw = [w \in Writers |-> IdleWriter]
    /\ kglogs = {}
    /\ insights = NoEnrichment

(***************************************************************************)
(* The search pipeline (search_service.py): vector retrieval, LLM rerank,  *)
(* relationship persistence, graph enrichment.                             *)
(***************************************************************************)
NoRank == 0     \* rank=None

\* A row search_similar_logs returns: distance is the cosine distance in hundredths.
SearchRow(jira_id, distance, flow_code, error_code) ==
    [jira_id |-> jira_id, distance |-> distance, flow_code |-> flow_code, error_code |-> error_code]

\* What the vector search may find, nearest first: nothing, one row, rows with
\* distinct tickets, a row without Jira id.
StoreRankings ==
    LET r1 == SearchRow(JiraId("browse", S("T1")), 5, S("F1"), S("E1"))
        r2 == SearchRow(JiraId("browse", S("T2")), 20, S("F1"), S("E2"))
        r3 == SearchRow(NoJira, 30, S("F1"), S("E1"))
    IN  { <<>>, <<r1>>, <<r1, r2>>, <<r1, r3>>, <<r1, r2, r3>> }

TopNs == {1, 2, 3}

\* Step 4 of search_log: similarity_score = round((1 - distance) * 100, 2); the
\* rerank keys and kg_insights are not in the dict yet.
FormatMatch(result) ==
    [ jira_id |-> result.jira_id, similarity_score |-> 100 - result.distance,
      flow_code |-> result.flow_code, error_code |-> result.error_code,
      ranked |-> FALSE, rank |-> NoRank, classification |-> "", confidence |-> NoConfidence,
      reasoning |-> "", kg_insights |-> NoInsights ]

FormatMatches(results) == [i \in 1..Len(results) |-> FormatMatch(results[i])]

\* One item of the "results" array the model answers with; a missing key reads as None.
RerankItem(jira_id, rank, classification, confidence, reasoning) ==
    [ jira_id |-> jira_id, rank |-> rank, classification |-> classification,
      confidence |-> confidence, reasoning |-> reasoning ]

\* generate_content's outcome: the call raises, or response.text is no JSON, or a
\* JSON array, or a JSON object with or without "results".
LlmResponse(kind, has_results, results) ==
    [kind |-> kind, has_results |-> has_results, results |-> results]

LlmResponses ==
    LET t1 == JiraId("browse", S("T1"))
        t2 == JiraId("", S("T2"))
    IN  { LlmResponse("raise", FALSE, <<>>),
          LlmResponse("text", FALSE, <<>>),
          LlmResponse("array", FALSE, <<>>),
          LlmResponse("object", FALSE, <<>>),
          LlmResponse("object", TRUE, <<>>),
          LlmResponse("object", TRUE, <<RerankItem(t1, 2, "RELATED", 60, "near"),
                                        RerankItem(t2, 1, "EXACT_DUPLICATE", 90, "same")>>),
          LlmResponse("object", TRUE, <<RerankItem(t1, 1, "NOT_RELATED", 10, "far")>>),
          LlmResponse("object", TRUE, <<RerankItem(t1, 1, "", NoConfidence, "")>>),
          LlmResponse("object", TRUE, <<RerankItem(t1, NoRank, "RELATED", 60, "near"),
                                        RerankItem(t2, 1, "EXACT_DUPLICATE", 90, "same")>>),
          LlmResponse("object", TRUE, <<RerankItem(t1, 1, "EXACT_DUPLICATE", 90, "same"),
                                        RerankItem(JiraId("", S("T1")), 2, "RELATED", 60, "near")>>),
          LlmResponse("object", TRUE, <<RerankItem(NoJira, 1, "RELATED", 60, "near")>>),
          LlmResponse("object", TRUE, <<RerankItem(JiraId("", S("T9")), 1, "RELATED", 60, "near")>>) }

\* RERANK_RESPONSE_SCHEMA: "results" and the five keys of every item are required,
\* rank >= 1, classification in the enum, confidence in 0..100.
SchemaValid(response) ==
    /\ response.kind = "object"
    /\ response.has_results
    /\ \A i \in 1..Len(response.results) :
         LET item == response.results[i]
         IN  /\ item.jira_id # NoJira
             /\ item.rank >= 1
             /\ item.classification \in {"EXACT_DUPLICATE", "SIMILAR_ROOT_CAUSE", "RELATED", "NOT_RELATED"}
             /\ item.confidence \in 0..100
             /\ item.reasoning # ""

\* full_url.split("/")[-1]
ShortId(full_url) == JiraId("", full_url.ticket)

\* jira_to_candidate: each candidate is stored under its full id and, when it has
\* one, under its short id; a later candidate replaces an earlier one on a key.
CandidateKeys(c) == IF c.jira_id # NoJira THEN {c.jira_id, ShortId(c.jira_id)} ELSE {c.jira_id}

HasCandidate(candidates, jira_id) == \E i \in 1..Len(candidates) : jira_id \in CandidateKeys(candidates[i])

Candidate(candidates, jira_id) ==
    LET hits == { i \in 1..Len(candidates) : jira_id \in CandidateKeys(candidates[i]) }
    IN  candidates[CHOOSE i \in hits : \A j \in hits : j <= i]

\* The merge loop: a copy of the candidate with the four keys of the item.
RECURSIVE MergeRerank(_, _)
MergeRerank(candidates, reranked_results) ==
    IF Len(reranked_results) = 0 THEN <<>>
    ELSE LET result == Head(reranked_results)
             rest   == MergeRerank(candidates, Tail(reranked_results))
         IN  IF HasCandidate(candidates, result.jira_id)
             THEN << [Candidate(candidates, result.jira_id) EXCEPT
                        !.ranked = TRUE, !.rank = result.rank,
                        !.classification = result.classification,
                        !.confidence = result.confidence, !.reasoning = result.reasoning] >> \o rest
             ELSE rest

\* list.sort(key=rank): stable, ascending.
RECURSIVE InsertByRank(_, _)
InsertByRank(sorted, x) ==
    IF Len(sorted) = 0 THEN <<x>>
    ELSE IF x.rank < Head(sorted).rank THEN <<x>> \o sorted
    ELSE <<Head(sorted)>> \o InsertByRank(Tail(sorted), x)

RECURSIVE SortByRank(_)
SortByRank(matches) ==
    IF Len(matches) = 0 THEN <<>>
    ELSE InsertByRank(SortByRank(SubSeq(matches, 1, Len(matches) - 1)), matches[Len(matches)])

\* The comparison of a None rank raises TypeError; a list of one is not compared.
SortRaises(matches) == Len(matches) >= 2 /\ \E i \in 1..Len(matches) : matches[i].rank = NoRank

\* rerank_with_llm without the sort of the enhanced results.
rerank_unsorted(candidates, response) ==
    IF response.kind # "object" THEN candidates
    ELSE LET reranked_results == IF response.has_results THEN response.results ELSE <<>>
             enhanced_results == MergeRerank(candidates, reranked_results)
         IN  IF SortRaises(enhanced_results) THEN candidates ELSE enhanced_results

\* rerank_with_llm: every exception of the try block returns the candidates.
rerank_with_llm(candidates, response) ==
    IF response.kind # "object" THEN candidates
    ELSE LET reranked_results == IF response.has_results THEN response.results ELSE <<>>
             enhanced_results == MergeRerank(candidates, reranked_results)
         IN  IF SortRaises(enhanced_results) THEN candidates ELSE SortByRank(enhanced_results)

\* _persist_relationships: the add_jira_relationship calls it makes.
EdgeMap(classification) ==
    CASE classification = "EXACT_DUPLICATE" -> "DUPLICATE_OF"
      [] classification \in {"SIMILAR_ROOT_CAUSE", "RELATED"} -> "RELATED_TO"
      [] OTHER -> ""

persist_calls_unguarded(query_jira_id, enhanced_matches) ==
    { Rel(query_jira_id, enhanced_matches[i].jira_id, EdgeMap(enhanced_matches[i].classification),
          enhanced_matches[i].confidence) :
        i \in { k \in 1..Len(enhanced_matches) :
                  /\ EdgeMap(enhanced_matches[k].classification) # ""
                  /\ enhanced_matches[k].jira_id # NoJira } }

PersistCalls(query_jira_id, enhanced_matches) ==
    { Rel(query_jira_id, enhanced_matches[i].jira_id, EdgeMap(enhanced_matches[i].classification),
          enhanced_matches[i].confidence) :
        i \in { k \in 1..Len(enhanced_matches) :
                  /\ EdgeMap(enhanced_matches[k].classification) # ""
                  /\ query_jira_id # NoJira
                  /\ enhanced_matches[k].jira_id # NoJira } }

\* An enrichment that returns only the matches it enriched before the failure.
enriched_prefix_only(matches) ==
    LET bad  == { i \in 1..Len(matches) : matches[i].jira_id = NoJira }
        upto == IF bad = {} THEN Len(matches) ELSE (CHOOSE i \in bad : \A j \in bad : i <= j) - 1
        kg(i) == KgInsights(Match(matches[i].jira_id, matches[i].flow_code, matches[i].error_code))
    IN  UNION { { [i \in 1..k |-> [matches[i] EXCEPT !.kg_insights = f[i]]] :
                  f \in { g \in [1..k -> UNION { kg(i) : i \in 1..k }] : \A i \in 1..k : g[i] \in kg(i) } } :
                k \in 0..upto }

\* enrich_search_results on a list: the matches are enriched in order, in place; the
\* first match without Jira id raises, and so may any graph read; the matches
\* enriched so far keep their kg_insights.
EnrichedLists(matches) ==
    LET bad  == { i \in 1..Len(matches) : matches[i].jira_id = NoJira }
        upto == IF bad = {} THEN Len(matches) ELSE (CHOOSE i \in bad : \A j \in bad : i <= j) - 1
        kg(i) == KgInsights(Match(matches[i].jira_id, matches[i].flow_code, matches[i].error_code))
    IN  UNION { { [i \in 1..Len(matches) |->
                     IF i <= k THEN [matches[i] EXCEPT !.kg_insights = f[i]] ELSE matches[i]] :
                  f \in { g \in [1..k -> UNION { kg(i) : i \in 1..k }] : \A i \in 1..k : g[i] \in kg(i) } } :
                k \in 0..upto }

IdleSearch ==
    [ pc |-> "idle", top_n |-> 0, matches |-> <<>>, response |-> LlmResponse("", FALSE, <<>>),
      final_results |-> <<>>, status_code |-> 0 ]

\* Steps 1 to 4: normalize, embed, vector search, format; a failure of any is a 500.
SearchCall ==
    /\ srch.pc \in {"idle", "done"}
    /\ \E ranking \in StoreRankings, top_n \in TopNs :
         \/ srch' = [IdleSearch EXCEPT !.pc = "rerank", !.top_n = top_n,
                        !.matches = FormatMatches(SubSeq(ranking, 1, IF top_n < Len(ranking) THEN top_n ELSE Len(ranking)))]
         \/ srch' = [IdleSearch EXCEPT !.pc = "done", !.top_n = top_n, !.status_code = 500]
    /\ UNCHANGED graphVars

\* Step 5: rerank_with_llm, then the first top_n of what it returns.
SearchRerank ==
    /\ srch.pc = "rerank"
    /\ \E response \in LlmResponses :
         LET enhanced_matches == rerank_with_llm(srch.matches, response)
         IN  srch' = [srch EXCEPT !.pc = "persist", !.response = response,
                        !.final_results = SubSeq(enhanced_matches, 1,
                            IF srch.top_n < Len(enhanced_matches) THEN srch.top_n ELSE Len(enhanced_matches))]
    /\ UNCHANGED graphVars

\* Step 6: _persist_relationships with query_jira_id = None; each call it makes
\* writes its edge on a connection of its own.
SearchPersist ==
    /\ srch.pc = "persist"
    /\ srch' = [srch EXCEPT !.pc = "enrich"]
    /\ edges' = edges \cup UNION { insert_edge(edges, {}, RelFrom(rel), RelTo(rel), rel.edge_type,
                                               RelProps(rel.confidence)) :
                                     rel \in PersistCalls(NoJira, srch.final_results) }
    /\ UNCHANGED <<nodes, gw, kglogs, insights>>

\* Step 7: enrich_search_results, and the return.
SearchEnrich ==
    /\ srch.pc = "enrich"
    /\ \E enriched \in EnrichedLists(srch.final_results) :
         srch' = [srch EXCEPT !.pc = "done", !.final_results = enriched, !.status_code = 200]
    /\ UNCHANGED graphVars

SearchInit == srch = IdleSearch

NextSearch ==
    \/ SearchCall /\ UNCHANGED notSearch
    \/ SearchRerank /\ UNCHANGED notSearch
    \/ SearchPersist /\ UNCHANGED notSearch
    \/ SearchEnrich /\ UNCHANGED notSearch

(***************************************************************************)
(* The AIOps variant (src/temp/AIOps): the MERGE upsert of the semantic    *)
(* repository and the threshold policy of the service.                     *)
(***************************************************************************)
\* An entry of the attributes dict; a key is a str or an int.
Attr(int_key, key, value) == [int_key |-> int_key, key |-> key, value |-> value]

\* A LogRecord.  event_time, action_name, endpoint_name, error_level and raw_json
\* are bound and stored the same way as flow_code and error_code.
LogRecord(log_id, flow_code, error_code, semantic_text, attributes, vector) ==
    [ log_id |-> log_id, flow_code |-> flow_code, error_code |-> error_code,
      semantic_text |-> semantic_text, attributes |-> attributes, vector |-> vector ]

\* Vector components are counted in steps of which every fourth is a float32 value.
Vectors == { <<4, 8>>, <<5, 8>>, <<8, 4>> }

AttributeDicts == { <<>>, <<Attr(FALSE, "region", "us")>>, <<Attr(TRUE, "1", "us")>> }

LogRecords ==
    { LogRecord(id, "F1", e, "text", a, v) :
        id \in {"L1", "L2"}, e \in {"E1", "E2"}, a \in AttributeDicts, v \in Vectors }

NoLogRecord == LogRecord("", "", "", "", <<>>, <<>>)

\* array.array("f", record.vector): every component narrowed to the nearest float32.
ArrayF(vector) == [i \in 1..Len(vector) |-> 4 * ((vector[i] + 2) \div 4)]

\* json.dumps(record.attributes): the keys of a JSON object are strings.
DumpsAttributes(attributes) == [i \in 1..Len(attributes) |-> [attributes[i] EXCEPT !.int_key = FALSE]]

\* json.loads of the ATTRIBUTES text.
LoadsAttributes(text) == text

\* params of merge_content: the row the statement binds.
MergeParams(record) ==
    [record EXCEPT !.attributes = DumpsAttributes(record.attributes), !.vector = ArrayF(record.vector)]

\* The MERGE statement: every row with the LOG_ID takes all bound columns; without
\* such a row the bound row is inserted.
merge_insert_only(table, row) == table \cup {row}

merge_row(table, row) ==
    IF \E t \in table : t.log_id = row.log_id
    THEN { IF t.log_id = row.log_id THEN row ELSE t : t \in table }
    ELSE table \cup {row}

NoDecision == [status |-> "", similarity |-> 0]

\* AIOpsService.__init__: the thresholds, in hundredths, default to 0.90 and 0.75.
NewService(threshold_known, threshold_related) ==
    [ threshold_known |-> threshold_known, threshold_related |-> threshold_related,
      op |-> "", record |-> NoLogRecord, ok |-> FALSE, repeat |-> FALSE,
      last |-> NoDecision, prev |-> NoDecision ]

\* THRESHOLD_KNOWN and THRESHOLD_RELATED as load_config reads them: any floats.
Thresholds == {50, 75, 90}

\* The service is built from a configuration.
Construct(threshold_known, threshold_related) ==
    /\ aiops' = NewService(threshold_known, threshold_related)
    /\ UNCHANGED ss_logs

\* merge_content: the MERGE runs and pool.acquire commits; or execute raises,
\* pool.acquire rolls back and the error reaches the caller.  repeat tells a call
\* with the record of the call before it.
MergeContent(record) ==
    /\ \/ /\ ss_logs' = merge_row(ss_logs, MergeParams(record))
          /\ aiops' = [aiops EXCEPT !.op = "merge", !.record = record, !.ok = TRUE,
                          !.repeat = (aiops.op = "merge" /\ aiops.ok /\ aiops.record = record)]
       \/ /\ UNCHANGED ss_logs
          /\ aiops' = [aiops EXCEPT !.op = "merge", !.record = record, !.ok = FALSE, !.repeat = FALSE]

\* _decide_status
decide_status_nonstrict(similarity) ==
    IF similarity >= aiops.threshold_known THEN "known"
    ELSE IF similarity >= aiops.threshold_related THEN "related"
    ELSE "new"

decide_status_related_first(similarity) ==
    IF similarity > aiops.threshold_related THEN "related"
    ELSE IF similarity > aiops.threshold_known THEN "known"
    ELSE "new"

decide_status(similarity) ==
    IF similarity > aiops.threshold_known THEN "known"
    ELSE IF similarity > aiops.threshold_related THEN "related"
    ELSE "new"

\* The similarity of the nearest stored row to a query, 1 - cosine distance in
\* hundredths: the embedding decides it.
Similarities == {-10, 0, 50, 51, 75, 76, 90, 91, 100}

\* match_error: semantic_search with min_similarity=0.0 drops the rows below 0; no
\* result is status "empty" with similarity 0.0, else the top similarity decides.
MatchError(similarity) ==
    /\ aiops' = [aiops EXCEPT !.op = "match", !.prev = aiops.last,
                    !.last = IF ss_logs = {} \/ similarity < 0
                             THEN [status |-> "empty", similarity |-> 0]
                             ELSE [status |-> decide_status(similarity), similarity |-> similarity]]
    /\ UNCHANGED ss_logs

AiopsInit ==
    /\ ss_logs = {}
    /\ aiops = NewService(90, 75)

(***************************************************************************)
(* merge_batch of the repository and ingest_logs of the service: a loop    *)
(* over the input, one merge_content, in a transaction of its own, per     *)
(* record.                                                                 *)
(***************************************************************************)
MaxMergeBatch == 2    \* longest list handed to merge_batch / ingest_logs

\* The records of a batch: two ids, each with two vectors.
BatchRecords ==
    { r \in LogRecords : r.error_code = "E1" /\ r.attributes = <<>> /\ r.vector \in {<<4, 8>>, <<5, 8>>} }

MergeBatchInputs == UNION { [1..n -> BatchRecords] : n \in 0..MaxMergeBatch }

IdleMergeBatch ==
    [ pc |-> "idle", op |-> "", records |-> <<>>, i |-> 0, processed |-> 0, stored |-> 0,
      failed |-> 0, ok |-> <<>>, before |-> {} ]

\* merge_batch(records) or ingest_logs(logs) is called: the counters start at 0.
\* `ok` and `before` are history: which records went through, and the table at
\* the call.  For ingest_logs a record stands for the log it is built from.
MergeBatchCall(op, records) ==
    /\ mb.pc \in {"idle", "done"}
    /\ mb' = [IdleMergeBatch EXCEPT !.pc = "loop", !.op = op, !.records = records, !.before = ss_logs]
    /\ UNCHANGED ss_logs

\* The except branches of the loop body: the failure is logged and counted, and
\* the loop goes on.
abort_on_failure(f) == [f EXCEPT !.failed = @ + 1, !.i = Len(f.records), !.ok = @ \o <<FALSE>>]

count_failure(f) == [f EXCEPT !.failed = @ + 1, !.i = @ + 1, !.ok = @ \o <<FALSE>>]

\* One pass of the loop body: merge_content commits the record and stored is
\* counted; or a step raises (for ingest_logs the text build or the embedding, for
\* both the merge, which rolls back) and failed is counted.  ingest_logs counts
\* processed first.
MergeBatchRecord ==
    /\ mb.pc = "loop"
    /\ mb.i < Len(mb.records)
    /\ LET f == IF mb.op = "ingest_logs" THEN [mb EXCEPT !.processed = @ + 1] ELSE mb
       IN  \/ /\ ss_logs' = merge_row(ss_logs, MergeParams(mb.records[mb.i + 1]))
              /\ mb' = [f EXCEPT !.stored = @ + 1, !.i = @ + 1, !.ok = @ \o <<TRUE>>]
           \/ /\ UNCHANGED ss_logs
              /\ mb' = count_failure(f)

\* After the last record the counts are returned.
MergeBatchReturn ==
    /\ mb.pc = "loop"
    /\ mb.i = Len(mb.records)
    /\ mb' = [mb EXCEPT !.pc = "done"]
    /\ UNCHANGED ss_logs

MergeBatchInit == mb = IdleMergeBatch

(***************************************************************************)
(* semantic_search of the repository and the decision match_error builds   *)
(* from its result list.                                                   *)
(***************************************************************************)
\* The similarity 1 - VECTOR_DISTANCE of every stored row to the query vector, in
\* hundredths: the embedding decides it.
SimilarityMaps == [{ t.log_id : t \in ss_logs } -> { s \in Similarities : s \in {-10, 0, 51, 90, 91} }]

\* ORDER BY VECTOR_DISTANCE: the rows nearest first, rows at one distance in any order.
Rankings(sim) ==
    { r \in [1..Cardinality(ss_logs) -> DOMAIN sim] :
        /\ \A i, j \in DOMAIN r : i # j => r[i] # r[j]
        /\ \A i, j \in DOMAIN r : i < j => sim[r[i]] >= sim[r[j]] }

SearchResult(log_id, similarity) == [log_id |-> log_id, similarity |-> similarity]

\* FETCH FIRST :top_k ROWS ONLY
FetchFirst(ranking, top_k) == SubSeq(ranking, 1, IF top_k < Len(ranking) THEN top_k ELSE Len(ranking))

\* semantic_search: the fetched rows, in order, without those below min_similarity.
semantic_search_nofilter(ranking, sim, top_k, min_similarity) ==
    [i \in 1..Len(FetchFirst(ranking, top_k)) |-> SearchResult(ranking[i], sim[ranking[i]])]

RECURSIVE FilterResults(_, _)
FilterResults(rows, min_similarity) ==
    IF Len(rows) = 0 THEN <<>>
    ELSE IF Head(rows).similarity < min_similarity THEN FilterResults(Tail(rows), min_similarity)
    ELSE <<Head(rows)>> \o FilterResults(Tail(rows), min_similarity)

semantic_search(ranking, sim, top_k, min_similarity) ==
    FilterResults([i \in 1..Len(FetchFirst(ranking, top_k)) |-> SearchResult(ranking[i], sim[ranking[i]])],
                  min_similarity)

TopKs == {1, 2}

MinSimilarities == {0, 51}

\* A call that has not been made.
NoSearch ==
    [ op |-> "", top_k |-> 0, min_similarity |-> 0, sim |-> <<>>, results |-> <<>>,
      status |-> "", similarity |-> 0, top_match |-> <<>>, alternatives |-> <<>> ]

\* semantic_search called on its own; a failing query raises to the caller.
SemanticSearch(top_k, min_similarity) ==
    /\ \E sim \in SimilarityMaps : \E ranking \in Rankings(sim) :
         \/ md' = [NoSearch EXCEPT !.op = "search", !.top_k = top_k, !.min_similarity = min_similarity,
                      !.sim = sim, !.results = semantic_search(ranking, sim, top_k, min_similarity)]
         \/ md' = [NoSearch EXCEPT !.op = "raised", !.top_k = top_k, !.min_similarity = min_similarity,
                      !.sim = sim]
    /\ UNCHANGED <<ss_logs, aiops>>

\* match_error: semantic_search with min_similarity=0.0, then the decision: empty
\* without results, else results[0] is the top match, results[1:] the alternatives
\* and _decide_status gives the status.  top_match is a list of none or one.
MatchDecide(top_k) ==
    /\ \E sim \in SimilarityMaps : \E ranking \in Rankings(sim) :
         LET results == semantic_search(ranking, sim, top_k, 0)
         IN  \/ md' = IF Len(results) = 0
                      THEN [NoSearch EXCEPT !.op = "match", !.top_k = top_k, !.sim = sim, !.status = "empty"]
                      ELSE [NoSearch EXCEPT !.op = "match", !.top_k = top_k, !.sim = sim,
                               !.results = results,
                               !.status = decide_status(results[1].similarity),
                               !.similarity = results[1].similarity,
                               !.top_match = <<results[1]>>,
                               !.alternatives = Tail(results)]
             \/ md' = [NoSearch EXCEPT !.op = "raised", !.top_k = top_k, !.sim = sim]
    /\ UNCHANGED <<ss_logs, aiops>>

DecideInit == md = NoSearch

(***************************************************************************)
(* _persist_relationships (search_service.py) with a query ticket: one     *)
(* add_jira_relationship call per qualifying match, each non-fatal.        *)
(***************************************************************************)
\* A re-ranked match: the candidate with the classification and confidence of the rerank.
EnhancedMatch(jira_id, classification, confidence) ==
    [FormatMatch(SearchRow(jira_id, 5, S("F1"), S("E1"))) EXCEPT
        !.ranked = TRUE, !.rank = 1, !.classification = classification, !.confidence = confidence]

\* The enhanced lists persisted: none; a duplicate and an unrelated ticket; a
\* similar root cause and a related ticket under its short id; a related ticket
\* with confidence 0; a match without Jira id and one without classification.
PersistInputs ==
    { <<>>,
      <<EnhancedMatch(JiraId("browse", S("T2")), "EXACT_DUPLICATE", 90),
        EnhancedMatch(JiraId("browse", S("T3")), "NOT_RELATED", 10)>>,
      <<EnhancedMatch(JiraId("browse", S("T2")), "SIMILAR_ROOT_CAUSE", 100),
        EnhancedMatch(JiraId("", S("T3")), "RELATED", 60)>>,
      <<EnhancedMatch(JiraId("browse", S("T2")), "RELATED", 0)>>,
      <<EnhancedMatch(NoJira, "EXACT_DUPLICATE", 90),
        EnhancedMatch(JiraId("browse", S("T3")), "", NoConfidence)>> }

QueryJiraIds == { JiraId("browse", S("T1")), NoJira }

IdlePersist == [pc |-> "idle", query_jira_id |-> NoJira, enhanced_matches |-> <<>>, i |-> 1, rets |-> <<>>]

\* if edge_type and query_jira_id and match.get("jira_id")
Qualifies(query_jira_id, match) ==
    /\ EdgeMap(match.classification) # ""
    /\ query_jira_id # NoJira
    /\ match.jira_id # NoJira

\* The loop moves to the next match, or ends.
NextMatchOf(f, ret) ==
    [f EXCEPT !.pc = IF f.i >= Len(f.enhanced_matches) THEN "done" ELSE "loop",
              !.i = f.i + 1, !.rets = Append(f.rets, ret)]

PersistCall(query_jira_id, enhanced_matches) ==
    /\ pr.pc \in {"idle", "done"}
    /\ gw["g1"].pc = "idle"
    /\ pr' = [IdlePersist EXCEPT !.pc = IF enhanced_matches = <<>> THEN "done" ELSE "loop",
                                 !.query_jira_id = query_jira_id, !.enhanced_matches = enhanced_matches]
    /\ UNCHANGED graphVars

\* One turn of the loop: add_jira_relationship is called for a qualifying match.
PersistMatch ==
    /\ pr.pc = "loop"
    /\ LET match == pr.enhanced_matches[pr.i]
       IN  IF Qualifies(pr.query_jira_id, match)
           THEN /\ RelBegin("g1", Rel(pr.query_jira_id, match.jira_id, EdgeMap(match.classification),
                                      match.confidence))
                /\ pr' = [pr EXCEPT !.pc = "call"]
           ELSE /\ pr' = NextMatchOf(pr, "")
                /\ UNCHANGED graphVars

\* add_jira_relationship runs: its edge, its commit.
PersistWrite ==
    /\ pr.pc = "call"
    /\ RelEdge("g1") \/ RelCommit("g1")
    /\ UNCHANGED pr

\* add_jira_relationship returned True or False; the result is not looked at.
PersistReturn ==
    /\ pr.pc = "call"
    /\ gw["g1"].pc = "idle"
    /\ pr' = NextMatchOf(pr, gw["g1"].ret)
    /\ UNCHANGED graphVars

PersistInit == pr = IdlePersist

Init == IngestInit /\ GraphInit /\ SearchInit /\ AiopsInit /\ MergeBatchInit /\ DecideInit /\ PersistInit /\ StatusInit

NextPersist ==
    \/ (\E q \in QueryJiraIds, m \in PersistInputs : PersistCall(q, m)) /\ UNCHANGED notPersist
    \/ PersistMatch /\ UNCHANGED notPersist
    \/ PersistWrite /\ UNCHANGED notPersist
    \/ PersistReturn /\ UNCHANGED notPersist

SpecPersist == Init /\ [][NextPersist]_vars

\* The store is filled by merges, then searched and matched against.
DecideStore == (\E record \in BatchRecords : MergeContent(record)) /\ UNCHANGED <<md, notDecide>>

DecideSearch ==
    /\ \E top_k \in TopKs, min_similarity \in MinSimilarities : SemanticSearch(top_k, min_similarity)
    /\ UNCHANGED notDecide

DecideMatch == (\E top_k \in TopKs : MatchDecide(top_k)) /\ UNCHANGED notDecide

NextDecide == DecideStore \/ DecideSearch \/ DecideMatch

SpecDecide == Init /\ [][NextDecide]_vars


BatchMergeCall ==
    /\ \E op \in {"merge_batch", "ingest_logs"}, records \in MergeBatchInputs : MergeBatchCall(op, records)
    /\ UNCHANGED notMergeBatch

BatchMergeRecord == MergeBatchRecord /\ UNCHANGED notMergeBatch

BatchMergeReturn == MergeBatchReturn /\ UNCHANGED notMergeBatch

NextMergeBatch == BatchMergeCall \/ BatchMergeRecord \/ BatchMergeReturn

SpecMergeBatch == Init /\ [][NextMergeBatch]_vars


(***************************************************************************)
(* Graph calls one after the other: one writer, and enrichment between     *)
(* its calls.                                                              *)
(***************************************************************************)
MaxKgLogs == 2        \* add_log_to_graph is called while the graph holds fewer logs

GraphCallLog ==
    /\ Cardinality(kglogs) < MaxKgLogs
    /\ \E kg \in KgInputs : KgBegin("g1", kg[1], kg[2])
    /\ UNCHANGED notGraph

GraphCallRel == (\E rel \in RelInputs : RelBegin("g1", rel)) /\ UNCHANGED notGraph

GraphWrite ==
    /\ KgNodes("g1") \/ KgEdges("g1") \/ KgCommit("g1") \/ RelEdge("g1") \/ RelCommit("g1")
    /\ UNCHANGED notGraph

GraphEnrich ==
    /\ gw["g1"].pc = "idle"
    /\ \E kg \in kglogs : Enrich(MatchOf(kg))
    /\ UNCHANGED notGraph

NextGraph == GraphCallLog \/ GraphCallRel \/ GraphWrite \/ GraphEnrich

SpecGraph == Init /\ [][NextGraph]_vars

(***************************************************************************)
(* Two independent requests writing relationships and logs at once.        *)
(***************************************************************************)
ConcRelInputs == { rel \in RelInputs : rel.edge_type = "DUPLICATE_OF" }
ConcKgInputs == { kg \in KgInputs : kg[1].flow_code = S("F1") /\ kg[1].error_code = NoStr }

GraphConcCall ==
    /\ \E w \in Writers :
         \/ \E rel \in ConcRelInputs : RelBegin(w, rel)
         \/ \E kg \in ConcKgInputs : KgBegin(w, kg[1], kg[2])
    /\ UNCHANGED notGraph

GraphConcWrite ==
    /\ \E w \in Writers : KgNodes(w) \/ KgEdges(w) \/ KgCommit(w) \/ RelEdge(w) \/ RelCommit(w)
    /\ UNCHANGED notGraph

NextGraphConc == GraphConcCall \/ GraphConcWrite

SpecGraphConc == Init /\ [][NextGraphConc]_vars

(***************************************************************************)
(* Searches, one after the other, on the graph as it stands.               *)
(***************************************************************************)
SpecSearch == Init /\ [][NextSearch]_vars

(***************************************************************************)
(* Merges into SS_ERROR_LOGS, one after the other.                         *)
(***************************************************************************)
MergeCall == (\E record \in LogRecords : MergeContent(record)) /\ UNCHANGED notAiops

NextMerge == MergeCall

SpecMerge == Init /\ [][NextMerge]_vars

(***************************************************************************)
(* A service built from any configuration, matching against a store that   *)
(* is empty or not.                                                        *)
(***************************************************************************)
MatchConstruct ==
    /\ \E threshold_known \in Thresholds, threshold_related \in Thresholds :
         Construct(threshold_known, threshold_related)
    /\ UNCHANGED notAiops

MatchStore ==
    /\ ss_logs = {}
    /\ MergeContent(LogRecord("L1", "F1", "E1", "text", <<>>, <<4, 8>>))
    /\ UNCHANGED notAiops

MatchCall == (\E similarity \in Similarities : MatchError(similarity)) /\ UNCHANGED notAiops

NextMatch == MatchConstruct \/ MatchStore \/ MatchCall

SpecMatch == Init /\ [][NextMatch]_vars

(***************************************************************************)
(* Non-overlapping ingest calls: one caller, one call at a time.           *)
(***************************************************************************)
SeqCall ==
    /\ Cardinality(logs) < MaxLogs
    /\ \E raw_log \in RawLogs : IngestCall("r1", raw_log)
    /\ UNCHANGED <<job, bpc, braw, notIngest>>

SeqStep == IngestStep("r1") /\ UNCHANGED <<job, bpc, braw, notIngest>>

NextIngest == SeqCall \/ SeqStep

SpecIngest == Init /\ [][NextIngest]_vars

(***************************************************************************)
(* Two independent requests ingesting at the same time.                    *)
(***************************************************************************)
ConcCall ==
    /\ Cardinality(logs) < MaxLogs
    /\ \E c \in {"r1", "r2"}, raw_log \in BatchRawLogs : IngestCall(c, raw_log)
    /\ UNCHANGED <<job, bpc, braw, notIngest>>

ConcStep == (\E c \in {"r1", "r2"} : IngestStep(c)) /\ UNCHANGED <<job, bpc, braw, notIngest>>

NextIngestConc == ConcCall \/ ConcStep

SpecIngestConc == Init /\ [][NextIngestConc]_vars

(***************************************************************************)
(* One batch job.                                                          *)
(***************************************************************************)
NextBatch ==
    \/ (\E raw_logs \in BatchInputs : IngestDatabase(raw_logs)) /\ UNCHANGED notIngest
    \/ BatchStart /\ UNCHANGED notIngest
    \/ BatchLoop /\ UNCHANGED notIngest
    \/ BatchIngest /\ UNCHANGED notIngest
    \/ BatchHandle /\ UNCHANGED notIngest
    \/ BatchHandle2 /\ UNCHANGED notIngest
    \/ BatchProcessed /\ UNCHANGED notIngest

SpecBatch == Init /\ [][NextBatch]_vars

(***************************************************************************)
(* One batch job, polled while it runs.                                    *)
(***************************************************************************)
NextPoll == NextBatch \/ GetIngestStatus

(***************************************************************************)
(* One batch job that is run to its end, on a store that another request   *)
(* may have written to before the job was created.  The background task is *)
(* started once the response is sent, and every ingest_log call returns.   *)
(***************************************************************************)
EarlierIngest ==
    /\ bpc = "none"
    /\ \/ /\ ing["r1"].pc = "idle"
          /\ \E raw_log \in { raw \in BatchRawLogs : raw[1].k = 1 /\ raw[1].v = 1 } : IngestCall("r1", raw_log)
       \/ IngestStep("r1")
    /\ UNCHANGED <<job, bpc, braw, notIngest>>

NextBatchLive == EarlierIngest \/ NextBatch

SpecBatchLive == Init /\ [][NextBatchLive]_vars /\ WF_vars(NextBatch)

SpecPoll == Init /\ [][NextPoll]_vars

(***************************************************************************)
(* Properties of the ingest gate.                                          *)
(***************************************************************************)
\* The exception ingest_log left by quotes the duplicate branch's detail.
IsDuplicateRejection(detail) == \E i \in 1..Len(detail) : detail[i] = "Duplicate log"

OnePerFingerprint == \A x, y \in logs : x.log_hash = y.log_hash => x = y

\* A call whose fingerprint is stored when the gate looks leaves at that step,
\* rejected: no record id, no 200, and the table as it was.
StoredFingerprintRejected ==
    \A c \in Callers :
        ( /\ ing[c].pc = "check"
          /\ ing'[c] # ing[c]
          /\ \E row \in logs : row.log_hash = LogHash(ing[c].raw_log) )
        => /\ ing'[c].pc = "done"
           /\ ing'[c].status_code # 200
           /\ ing'[c].log_id = NoId
           /\ logs' = logs

\* C1: under non-overlapping Ingest calls, for any raw records and repetitions,
\* OLL_LOGS holds at most one row per fingerprint, and an Ingest whose fingerprint
\* is already stored is rejected, returns no record id and adds no row.
C1_OneRecordPerFingerprint ==
    []OnePerFingerprint /\ [][StoredFingerprintRejected]_vars

\* A re-ingest of a stored document, written in another key order, was rejected.
C1_Witness ==
    /\ ing["r1"].pc = "done"
    /\ IsDuplicateRejection(ing["r1"].detail)
    /\ ing["r1"].log_id = NoId
    /\ \E row \in logs : /\ row.log_hash = ing["r1"].log_hash
                         /\ row.raw_json # JsonDumps(ing["r1"].raw_log, FALSE)
    /\ Cardinality(logs) >= 2

\* C8: an Ingest rejected because its fingerprint exists leaves as a 409, not as
\* a 5xx, and a batch job records it with status duplicate and counts it in
\* duplicates, not in failed.
C8_DuplicateIs409 ==
    /\ \A c \in Callers :
         (ing[c].pc = "done" /\ IsDuplicateRejection(ing[c].detail)) => ing[c].status_code = 409
    /\ \A i \in 1..Len(job.results) :
         IsDuplicateRejection(job.results[i].message) => job.results[i].status = "duplicate"
    /\ bpc \in {"loop", "finished"} =>
         /\ job.duplicates =
              Cardinality({ i \in 1..Len(job.results) : IsDuplicateRejection(job.results[i].message) })
         /\ job.failed =
              Cardinality({ i \in 1..Len(job.results) :
                              /\ job.results[i].status # "success"
                              /\ ~IsDuplicateRejection(job.results[i].message) })

\* C9: the duplicate check and the insert are not isolated.  Two concurrent
\* requests with one fingerprint that both passed the check both insert: when
\* both have returned a record id, two rows share the fingerprint.
C9_RaceAdmitsTwoRecords ==
    \A c, d \in {"r1", "r2"} :
        ( /\ c # d
          /\ ing[c].pc = "done" /\ ing[c].status_code = 200
          /\ ing[d].pc = "done" /\ ing[d].status_code = 200
          /\ ing[c].log_hash = ing[d].log_hash )
        => \E x, y \in logs : /\ x # y
                              /\ x.log_hash = ing[c].log_hash
                              /\ y.log_hash = ing[c].log_hash

\* Both requests were past the check before either inserted, and both inserted.
C9_Witness ==
    /\ ing["r1"].pc = "done" /\ ing["r1"].status_code = 200
    /\ ing["r2"].pc = "done" /\ ing["r2"].status_code = 200
    /\ ing["r1"].log_hash = ing["r2"].log_hash
    /\ \E x, y \in logs : x # y /\ x.log_hash = y.log_hash /\ x.log_hash = ing["r1"].log_hash

(***************************************************************************)
(* Properties of the knowledge graph.                                      *)
(***************************************************************************)
SameTuple(e1, e2) ==
    e1.from_node = e2.from_node /\ e1.to_node = e2.to_node /\ e1.edge_type = e2.edge_type

EdgeUnique == \A e1, e2 \in edges : SameTuple(e1, e2) => e1 = e2

\* The writer is about to commit an add_jira_relationship whose edge was there
\* before the call.
RelOnExistingEdge(w) ==
    /\ gw[w].pc = "rel_commit"
    /\ \E e \in edges : /\ e.from_node = RelFrom(gw[w].rel)
                        /\ e.to_node = RelTo(gw[w].rel)
                        /\ e.edge_type = gw[w].rel.edge_type

\* Every committed edge row stays as it is, and the commit of a call on an
\* existing edge changes no edge at all.
SecondCallIsNoOp ==
    /\ \A e \in edges : e \in edges'
    /\ RelOnExistingEdge("g1") => edges' = edges

\* C3: with graph calls made one after the other, there is never more than one
\* edge for a (from, to, type), and a second call with the same tuple is a no-op:
\* the edge keeps the id and the properties the first call wrote, even when the
\* second call passes other properties.
C3_SecondUpsertEdgeIsNoOp == []EdgeUnique /\ [][SecondCallIsNoOp]_vars

\* C3 witness: a second add_jira_relationship on a stored edge has run its
\* _insert_edge with a confidence the stored properties do not have, and added nothing.
C3_Witness ==
    /\ RelOnExistingEdge("g1")
    /\ gw["g1"].new_edges = {}
    /\ gw["g1"].rel.confidence = 90
    /\ \E e \in edges : /\ e.from_node = RelFrom(gw["g1"].rel)
                        /\ e.to_node = RelTo(gw["g1"].rel)
                        /\ e.edge_type = gw["g1"].rel.edge_type
                        /\ e.properties = Props("", NoJira, 50)

\* The nodes an edge of the given type links from the Error node of a stored log.
LinkedFromError(kg, edge_type) ==
    { e.to_node : e \in { x \in edges : /\ x.from_node = make_node_id("Error", kg[1].error_code)
                                         /\ x.edge_type = edge_type } }

\* Two stored logs with tickets, on the same FlowCode node and different Error nodes.
SameFlowOtherError(a, b) ==
    /\ a[2] # NoJira /\ b[2] # NoJira
    /\ a[1].flow_code # NoStr /\ a[1].error_code # NoStr /\ b[1].error_code # NoStr
    /\ make_node_id("FlowCode", a[1].flow_code) = make_node_id("FlowCode", b[1].flow_code)
    /\ make_node_id("Error", a[1].error_code) # make_node_id("Error", b[1].error_code)

C10_OneEdgePerTupleConcurrent ==
    \A e1 \in edges : \A e2 \in edges : e1.edge_id # e2.edge_id => ~SameTuple(e1, e2)

(***************************************************************************)
(* Properties of the search pipeline.                                      *)
(***************************************************************************)
\* The rerank collaborator failed: the call raised, or its answer is not the JSON
\* object the schema asks for.
RerankFailed(response) == response.kind # "" /\ ~SchemaValid(response)

\* A returned match without its kg_insights.
WithoutInsights(match) == [match EXCEPT !.kg_insights = NoInsights]

\* C4: when the rerank collaborator failed in any way, the search ends without an
\* error and returns the candidates of the vector retrieval in their order and
\* with their content, none of them with rank, classification, confidence or
\* reasoning.
C4_RerankFailureKeepsCandidates ==
    (srch.pc = "done" /\ RerankFailed(srch.response)) =>
        /\ srch.status_code = 200
        /\ Len(srch.final_results) = Len(srch.matches)
        /\ \A i \in 1..Len(srch.final_results) :
             /\ WithoutInsights(srch.final_results[i]) = srch.matches[i]
             /\ ~srch.final_results[i].ranked

(***************************************************************************)
(* Properties of the AIOps variant.                                        *)
(***************************************************************************)
RowsOf(table, log_id) == { t \in table : t.log_id = log_id }

\* A stored row read back as a LogRecord.
ReadBack(row) == [row EXCEPT !.attributes = LoadsAttributes(row.attributes)]

\* C2 as stated: after merge(r) the store holds exactly one record with r's id, and
\* it equals r in every field, the vector included.
C2_StoredRecordEqualsInput ==
    (aiops.op = "merge" /\ aiops.ok) =>
        /\ Cardinality(RowsOf(ss_logs, aiops.record.log_id)) = 1
        /\ \A t \in RowsOf(ss_logs, aiops.record.log_id) : ReadBack(t) = aiops.record

\* A successful merge(r) leaves exactly one row with r's id, holding r as bound for
\* storage (vector narrowed to float32, attributes as JSON text), leaves every
\* row with another id as it was, and changes nothing when the call before it
\* was a successful merge(r) too.
MergeIsUpsert ==
    (aiops'.op = "merge" /\ aiops'.ok /\ aiops' # aiops) =>
        /\ RowsOf(ss_logs', aiops'.record.log_id) = {MergeParams(aiops'.record)}
        /\ \A id \in {"L1", "L2"} \ {aiops'.record.log_id} : RowsOf(ss_logs', id) = RowsOf(ss_logs, id)
        /\ aiops'.repeat => ss_logs' = ss_logs

\* C2, amended: merge(r) twice leaves the store as merge(r) once does: exactly one
\* record has r's id, it equals r in every field as bound for storage, with the
\* vector narrowed to float32, and every record with another id is unchanged.
C2_MergeIdempotent == [][MergeIsUpsert]_vars

\* C2 witness: merge(r) ran twice in a row on a store that holds a record with
\* another id, for an r whose vector is not a float32 vector.
C2_Witness ==
    /\ aiops.op = "merge" /\ aiops.ok /\ aiops.repeat
    /\ ArrayF(aiops.record.vector) # aiops.record.vector
    /\ \E t \in ss_logs : t.log_id # aiops.record.log_id

\* A decision of match_error that classified a similarity.
Classified(d) == d.status \in {"known", "related", "new"}

\* C6: a top similarity s is known when s > threshold_known, else related when
\* s > threshold_related, else new; the comparisons are strict: with
\* threshold_related < threshold_known, s = threshold_known is related and
\* s = threshold_related is new.
C6_StrictThresholds ==
    Classified(aiops.last) =>
        LET s  == aiops.last.similarity
            st == aiops.last.status
        IN  /\ (st = "known") <=> (s > aiops.threshold_known)
            /\ (st = "related") <=> (~(s > aiops.threshold_known) /\ s > aiops.threshold_related)
            /\ (st = "new") <=> (~(s > aiops.threshold_known) /\ ~(s > aiops.threshold_related))
            /\ s = aiops.threshold_known => st # "known"
            /\ (aiops.threshold_related < aiops.threshold_known /\ s = aiops.threshold_known) => st = "related"
            /\ (aiops.threshold_related < aiops.threshold_known /\ s = aiops.threshold_related) => st = "new"

\* C6 witness: a similarity equal to threshold_known was classified, under
\* thresholds in their order.
C6_Witness ==
    /\ Classified(aiops.last)
    /\ aiops.threshold_related < aiops.threshold_known
    /\ aiops.last.similarity = aiops.threshold_known
    /\ Classified(aiops.prev)
    /\ aiops.prev.similarity = aiops.threshold_related

StatusRank(status) == CASE status = "known" -> 3 [] status = "related" -> 2 [] status = "new" -> 1

\* C7: of two similarities classified under the same thresholds, the higher never
\* gets the less confident status (known >= related >= new).
C7_ThresholdMonotonicity ==
    (Classified(aiops.last) /\ Classified(aiops.prev)) =>
        /\ aiops.last.similarity > aiops.prev.similarity =>
              StatusRank(aiops.last.status) >= StatusRank(aiops.prev.status)
        /\ aiops.prev.similarity > aiops.last.similarity =>
              StatusRank(aiops.prev.status) >= StatusRank(aiops.last.status)

\* C7 witness: two different similarities were classified under the same
\* thresholds, with different statuses.
C7_Witness ==
    /\ Classified(aiops.last) /\ Classified(aiops.prev)
    /\ aiops.last.similarity > aiops.prev.similarity
    /\ aiops.last.status = "known" /\ aiops.prev.status = "new"

(***************************************************************************)
(* More properties of the ingest gate.                                     *)
(***************************************************************************)
\* A step that ends a call of c in failure: the response carries an error status
\* and a detail, no record id, and the step leaves OLL_LOGS as it is.
FailedIngestWritesNothing ==
    \A c \in Callers :
        (ing'[c].pc = "done" /\ ing[c].pc # "done" /\ ing'[c].status_code # 200) =>
            /\ ing'[c].status_code >= 400
            /\ ing'[c].detail # NoText
            /\ ing'[c].log_id = NoId
            /\ logs' = logs

\* OLL_LOGS changes only in the step that ends a call with a 200 and a record id,
\* and then by that one record.
OnlySuccessWrites ==
    logs' # logs =>
        \E c \in Callers :
            /\ ing[c].pc = "insert" /\ ing'[c].pc = "done" /\ ing'[c].status_code = 200
            /\ \E row \in logs' : row.log_id = ing'[c].log_id /\ logs' = logs \cup {row}

\* C11: an Ingest call that fails at normalization, embedding or the store write
\* reports a failure, returns no record id and leaves OLL_LOGS as it was before
\* the call: none of its steps writes, because the only writing step is the one
\* that ends a call in success.
C11_FailedIngestLeavesStore == [][FailedIngestWritesNothing /\ OnlySuccessWrites]_vars

\* C11 witness: a call failed at the store write, after earlier calls had stored rows.
C11_Witness ==
    /\ ing["r1"].pc = "done"
    /\ ing["r1"].status_code = 500
    /\ \E i \in 1..Len(ing["r1"].detail) : ing["r1"].detail[i] = "Insert failed"
    /\ ing["r1"].log_id = NoId
    /\ logs # {}
    /\ \A row \in logs : row.log_hash # ing["r1"].log_hash

(***************************************************************************)
(* Properties of the batch merge.                                          *)
(***************************************************************************)
\* The table after merging, in order, the first n records that went through.
RECURSIVE ApplyMerges(_, _, _, _)
ApplyMerges(table, records, ok, n) ==
    IF n = 0 THEN table
    ELSE LET sofar == ApplyMerges(table, records, ok, n - 1)
         IN  IF ok[n] THEN merge_row(sofar, MergeParams(records[n])) ELSE sofar

\* C12: a batch isolates the failure of a record: whatever subset fails, the loop
\* runs through the last record, the table holds every record that did not fail,
\* merged in order onto the table as it was, those before and after a failure
\* alike, and stored + failed is the number of input records.
C12_BatchIsolatesFailures ==
    /\ mb.pc \in {"loop", "done"} =>
         /\ mb.stored + mb.failed = mb.i
         /\ mb.stored = Cardinality({ k \in 1..mb.i : mb.ok[k] })
         /\ ss_logs = ApplyMerges(mb.before, mb.records, mb.ok, mb.i)
    /\ mb.pc = "done" =>
         /\ mb.i = Len(mb.records)
         /\ mb.stored + mb.failed = Len(mb.records)
         /\ mb.op = "ingest_logs" => mb.processed = Len(mb.records)

\* C12 witness: a batch of two records with different ids returned after its first
\* record failed, and its second record is stored.
C12_Witness ==
    /\ mb.pc = "done"
    /\ Len(mb.records) = 2
    /\ mb.ok = <<FALSE, TRUE>>
    /\ mb.records[1].log_id # mb.records[2].log_id
    /\ mb.stored = 1 /\ mb.failed = 1
    /\ MergeParams(mb.records[2]) \in ss_logs
    /\ MergeParams(mb.records[2]) \notin mb.before

(***************************************************************************)
(* Properties of the match decision.                                       *)
(***************************************************************************)
\* A result list holds at most top_k results, each a stored row with its
\* similarity to the query and none below min_similarity, in descending order.
GoodResults(results, sim, top_k, min_similarity) ==
    /\ Len(results) <= top_k
    /\ \A i \in 1..Len(results) :
         /\ results[i].log_id \in DOMAIN sim
         /\ results[i].similarity = sim[results[i].log_id]
         /\ results[i].similarity >= min_similarity
    /\ \A i, j \in 1..Len(results) : i < j =>
         /\ results[i].similarity >= results[j].similarity
         /\ results[i].log_id # results[j].log_id

KnownItems == { i \in 1..Len(srch.response.results) :
                  HasCandidate(srch.matches, srch.response.results[i].jira_id) }

\* The try block of rerank_with_llm ran to its return; the results are those it
\* returned, cut to top_n and not yet enriched.
RerankSucceeded ==
    /\ srch.pc \in {"persist", "enrich"}
    /\ srch.response.kind = "object"
    /\ ~ (Cardinality(KnownItems) >= 2
          /\ \E i \in KnownItems : srch.response.results[i].rank = NoRank)

\* The enhanced element is the candidate with the four keys of an item that names
\* the candidate by its full or its short id.
EnhancedFrom(e, c, item) ==
    /\ item.jira_id \in CandidateKeys(c)
    /\ e = [c EXCEPT !.ranked = TRUE, !.rank = item.rank, !.classification = item.classification,
                     !.confidence = item.confidence, !.reasoning = item.reasoning]

\* C14: after a successful rerank every element of the enhanced list is an
\* original candidate, named by an item of the answer through its full or short
\* id, with its own fields kept and the item's rank, classification, confidence
\* and reasoning added; an item that names no candidate gives no element; the
\* list is in ascending order of rank.
C14_EnhancedAreCandidates ==
    RerankSucceeded =>
      /\ \A k \in 1..Len(srch.final_results) :
           \E i \in 1..Len(srch.matches), j \in KnownItems :
              EnhancedFrom(srch.final_results[k], srch.matches[i], srch.response.results[j])
      /\ Len(srch.final_results) =
           IF srch.top_n < Cardinality(KnownItems) THEN srch.top_n ELSE Cardinality(KnownItems)
      /\ \A k, l \in 1..Len(srch.final_results) :
           k < l => srch.final_results[k].rank <= srch.final_results[l].rank

\* C14 witness: the answer ranks two candidates out of order, one by its short id;
\* both come back, the short-named one first.
C14_Witness ==
    /\ RerankSucceeded
    /\ Len(srch.final_results) = 2
    /\ srch.response.results[1].rank > srch.response.results[2].rank
    /\ srch.final_results[1].jira_id = JiraId("browse", S("T2"))
    /\ srch.final_results[1].rank = 1
    /\ srch.final_results[1].similarity_score = 80

(***************************************************************************)
(* Properties of _upsert_node.                                             *)
(***************************************************************************)
\* The node rows writer g1's connection sees: the committed ones and its own.
VisibleNodes == nodes \cup gw["g1"].new_nodes

\* The ids _upsert_node returned to the writer, once the five upserts are done.
ReturnedIds ==
    IF gw["g1"].op = "log" /\ gw["g1"].pc \in {"edge1", "edge2", "edge3", "edge4", "commit"}
    THEN {FlowNode(gw["g1"]), ErrorNode(gw["g1"]), EpNode(gw["g1"]), RcNode(gw["g1"]), JiraNode(gw["g1"])} \ {NoNode}
    ELSE {}

UpsertedOnce ==
    /\ \A n1, n2 \in VisibleNodes : n1.node_id = n2.node_id => n1 = n2
    /\ \A n \in VisibleNodes : n.node_id = make_node_id(n.node_type, n.node_value)
    /\ \A id \in ReturnedIds : Cardinality({ n \in VisibleNodes : n.node_id = id }) = 1
    /\ \A n \in gw["g1"].new_nodes : \A m \in nodes : m.node_id # n.node_id

\* C15: _upsert_node returns the id "type:value" cut to 200 characters; a node
\* that exists under that id keeps its type, value and properties and gets no
\* second row; a node that does not exist is inserted once.
C15_UpsertNodeIdempotent == [][UpsertedOnce' /\ nodes \subseteq nodes']_vars

\* C15 witness: two logs are in the graph whose root causes differ only after the
\* 200th character; the one RootCause node holds one of the two values.
C15_Witness ==
    /\ \E kg \in kglogs : kg[1].root_cause = Str("R1", "more", 0)
    /\ \E kg \in kglogs : kg[1].root_cause = S("R1")
    /\ Cardinality({ n \in nodes : n.node_id = make_node_id("RootCause", S("R1")) }) = 1

(***************************************************************************)
(* Properties of the ticket's insights.                                    *)
(***************************************************************************)
\* Two stored logs with different tickets, the same Error node and different
\* root causes.
SameErrorOtherRootCause(a, b) ==
    /\ a[2] # NoJira /\ b[2] # NoJira
    /\ TicketId(a[2]) # TicketId(b[2])
    /\ a[1].error_code # NoStr
    /\ make_node_id("Error", a[1].error_code) = make_node_id("Error", b[1].error_code)
    /\ a[1].root_cause # NoStr /\ b[1].root_cause # NoStr
    /\ make_node_id("RootCause", a[1].root_cause) # make_node_id("RootCause", b[1].root_cause)

\* C16: the root cause in a ticket's insights comes from the ticket's own edges:
\* of two tickets with the same error code and different root causes, neither is
\* shown the other's root cause.
C16_TicketScopedRootCause ==
    \A a \in kglogs : \A b \in kglogs :
        (SameErrorOtherRootCause(a, b) /\ insights.match = MatchOf(a) /\ insights.kg_insights.present) =>
            insights.kg_insights.root_cause # b[1].root_cause

(***************************************************************************)
(* Properties of the recurrence count.                                     *)
(***************************************************************************)
\* The distinct tickets stored with the flow and the error of the match.
TicketsOf(match) ==
    { TicketId(kg[2]) : kg \in { x \in kglogs : /\ x[2] # NoJira
                                               /\ x[1].flow_code = match.flow_code
                                               /\ x[1].error_code = match.error_code } }

\* C17: the recurrence count reported for a flow and an error is the number of
\* distinct tickets logged under that flow with that error; it grows with every
\* further ticket.
C17_RecurrenceCountsTickets ==
    ( /\ insights.kg_insights.present
      /\ insights.match.flow_code # NoStr /\ insights.match.error_code # NoStr )
    => insights.kg_insights.recurrence_count = Cardinality(TicketsOf(insights.match))

(***************************************************************************)
(* Properties of the graph of a stored log.                                *)
(***************************************************************************)
\* The stored log carries flow code, error code, endpoint, root cause and ticket.
HasAllEntities(kg) ==
    /\ kg[1].flow_code # NoStr /\ kg[1].error_code # NoStr
    /\ kg[1].endpoint_name # NoStr /\ kg[1].root_cause # NoStr
    /\ kg[2] # NoJira

HasNode(node_id) == \E n \in nodes : n.node_id = node_id

HasEdge(from_node, to_node, edge_type) ==
    \E e \in edges : e.from_node = from_node /\ e.to_node = to_node /\ e.edge_type = edge_type

\* The five nodes of the log and the four edges between them.
FiveNodesFourEdges(kg) ==
    LET flow   == make_node_id("FlowCode", kg[1].flow_code)
        error  == make_node_id("Error", kg[1].error_code)
        ep     == make_node_id("Endpoint", kg[1].endpoint_name)
        rc     == make_node_id("RootCause", kg[1].root_cause)
        ticket == make_node_id("JiraTicket", TicketId(kg[2]))
    IN  /\ \A id \in {flow, error, ep, rc, ticket} : HasNode(id)
        /\ HasEdge(flow, error, "HAD_ERROR")
        /\ HasEdge(error, ep, "ON_ENDPOINT")
        /\ HasEdge(error, rc, "HAS_ROOT_CAUSE")
        /\ HasEdge(flow, ticket, "LOGGED_IN")

\* The edges from the Ticket node straight to the Error, Endpoint and RootCause nodes.
MirroredEdges(kg) ==
    LET ticket == make_node_id("JiraTicket", TicketId(kg[2]))
    IN  /\ HasEdge(ticket, make_node_id("Error", kg[1].error_code), "HAD_ERROR")
        /\ HasEdge(ticket, make_node_id("Endpoint", kg[1].endpoint_name), "ON_ENDPOINT")
        /\ HasEdge(ticket, make_node_id("RootCause", kg[1].root_cause), "HAS_ROOT_CAUSE")

\* C18: once a log with flow code, error code, endpoint, root cause and ticket is
\* written, the graph holds its five nodes, the edges FlowCode->Error,
\* Error->Endpoint, Error->RootCause and FlowCode->Ticket, and the mirrored edges
\* from the Ticket node to the Error, Endpoint and RootCause nodes.
C18_FullGraphAfterIngest ==
    \A kg \in kglogs : HasAllEntities(kg) => FiveNodesFourEdges(kg) /\ MirroredEdges(kg)

(***************************************************************************)
(* Properties of the skipped graph write.                                  *)
(***************************************************************************)
\* The step leaves writer g1 returned from a skipped write: the graph is as it
\* was and the call returned False.
SkipLeavesGraph ==
    gw'["g1"].skipped =>
        /\ nodes' = nodes /\ edges' = edges /\ kglogs' = kglogs
        /\ gw'["g1"].pc = "idle" /\ gw'["g1"].ret = "False"
        /\ gw'["g1"].new_nodes = {} /\ gw'["g1"].new_edges = {}

\* No write in progress and no committed write is for a log without flow code
\* and error code.
NoWriteWithoutCodes ==
    /\ gw'["g1"].op = "log" => (gw'["g1"].log.flow_code # NoStr \/ gw'["g1"].log.error_code # NoStr)
    /\ \A kg \in kglogs' : kg[1].flow_code # NoStr \/ kg[1].error_code # NoStr

\* C19: a graph write for a log with neither flow code nor error code is skipped:
\* it creates no node and no edge, whatever endpoint, root cause or ticket the
\* log has, leaves the graph as it was, and returns False to the caller.
C19_SkippedWriteLeavesGraph == [][SkipLeavesGraph /\ NoWriteWithoutCodes]_vars

\* C19 witness: a write was skipped on a graph that holds nodes and edges.
C19_Witness ==
    /\ gw["g1"].skipped /\ gw["g1"].ret = "False"
    /\ nodes # {} /\ edges # {}

(***************************************************************************)
(* Properties of the persisted relationships.                              *)
(***************************************************************************)
\* The edge of a match: from the query ticket to the match's ticket, of the type
\* of the match's classification, with the match's confidence as its property.
PersistedEdge(e, query_jira_id, match) ==
    /\ e.from_node = make_node_id("JiraTicket", TicketId(query_jira_id))
    /\ e.to_node = make_node_id("JiraTicket", TicketId(match.jira_id))
    /\ e.edge_type = EdgeMap(match.classification)
    /\ match.confidence \in 0..100 => e.properties = Props("", NoJira, match.confidence)

\* Every edge a step writes is the edge of the match the loop is at, and that
\* match has a classification with an edge type.
WritesEdgeOfMatch ==
    \A e \in edges' \ edges :
        /\ pr.pc = "call"
        /\ Qualifies(pr.query_jira_id, pr.enhanced_matches[pr.i])
        /\ PersistedEdge(e, pr.query_jira_id, pr.enhanced_matches[pr.i])

\* When the call for a match returned True, the graph holds the match's edge.
ReturnedTrueHasEdge ==
    (pr.pc = "call" /\ pr'.pc # "call" /\ gw["g1"].ret = "True") =>
        LET match == pr.enhanced_matches[pr.i]
        IN  HasEdge(make_node_id("JiraTicket", TicketId(pr.query_jira_id)),
                    make_node_id("JiraTicket", TicketId(match.jira_id)),
                    EdgeMap(match.classification))

\* C20: with a known query ticket, each match is persisted as the edge of its
\* classification (EXACT_DUPLICATE as DUPLICATE_OF, SIMILAR_ROOT_CAUSE and RELATED
\* as RELATED_TO, NOT_RELATED or none as no edge), from the query ticket to the
\* match's ticket, with the match's confidence as a property of the edge, for
\* every confidence from 0 to 100.
C20_PersistWritesClassifiedEdges == [][WritesEdgeOfMatch /\ ReturnedTrueHasEdge]_vars

(***************************************************************************)
(* Properties of Search as a reader.                                       *)
(***************************************************************************)
\* C21: relationship persistence with an unknown query ticket writes nothing, and
\* search_log always passes an unknown query ticket: no step of a search request,
\* whatever the rerank answers, adds or changes a node or an edge of the graph or
\* a row of the log store.
C21_SearchWritesNothing == [][nodes' = nodes /\ edges' = edges /\ logs' = logs]_vars

\* C21 witness: the persistence step ran on a match classified EXACT_DUPLICATE
\* with a Jira id, and the graph holds no edge.
C21_Witness ==
    /\ srch.pc = "enrich"
    /\ \E i \in 1..Len(srch.final_results) :
         /\ srch.final_results[i].classification = "EXACT_DUPLICATE"
         /\ srch.final_results[i].jira_id # NoJira
    /\ edges = {}

\* The matches of the response, without their insights.
MatchesWithoutInsights(f) == [i \in 1..Len(f.final_results) |-> WithoutInsights(f.final_results[i])]

\* C22: a failing graph operation during relationship persistence or enrichment
\* is not an error of the search: the request goes on and answers 200 with the
\* same matches in the same order, with the same similarity and classification;
\* only their insights may be missing.
C22_GraphFailureNotSurfaced ==
    [][ srch.pc \in {"persist", "enrich"} =>
          /\ srch'.status_code # 500
          /\ MatchesWithoutInsights(srch') = MatchesWithoutInsights(srch)
          /\ srch.pc = "enrich" => srch'.pc = "done" /\ srch'.status_code = 200 ]_vars

\* C22 witness: a search answered 200 with two matches with Jira ids, the first
\* enriched and the second left without insights by a graph failure.
C22_Witness ==
    /\ srch.pc = "done" /\ srch.status_code = 200
    /\ Len(srch.final_results) = 2
    /\ srch.final_results[1].kg_insights.present
    /\ srch.final_results[2].jira_id # NoJira
    /\ ~ srch.final_results[2].kg_insights.present

(***************************************************************************)
(* Properties of the batch job's counters.                                 *)
(***************************************************************************)
\* The counters agree with each other and with the per-record results.
CountersAgree(j) ==
    /\ j.processed = j.successful + j.duplicates + j.failed
    /\ j.processed = Len(j.results)
    /\ j.processed <= j.total_logs

\* C23: the worker takes the records one at a time in input order, and whenever
\* it has finished a record, and at the end of the job, processed = successful +
\* duplicates + failed = number of per-record results <= total_logs; a job with
\* a terminal status has processed = total_logs.
C23_BatchCountersAfterRecord ==
    /\ bpc \in {"loop", "finished"} => CountersAgree(job)
    /\ bpc \in {"ingest", "handled", "count"} =>
         /\ job.current_log = job.processed + 1
         /\ ing["w"].raw_log = braw[job.current_log]
    /\ \A i \in 1..Len(job.results) : job.results[i].log_index = i
    /\ job.status \in {"completed", "failed"} <=> bpc = "finished"
    /\ bpc = "finished" => job.processed = job.total_logs

\* C23 witness: a job of two records ended, one stored and one not.
C23_Witness ==
    /\ bpc = "finished" /\ job.total_logs = 2 /\ job.processed = 2
    /\ job.successful = 1 /\ job.duplicates + job.failed = 1
    /\ Len(job.results) = 2

(***************************************************************************)
(* Properties of the configured thresholds.                                *)
(***************************************************************************)
\* C24: the service classifies only with thresholds that satisfy
\* 0 <= threshold_related < threshold_known <= 1 (in hundredths: <= 100).
C24_ClassifiesWithValidThresholds ==
    (aiops.op = "match" /\ aiops.last.status \in {"known", "related", "new"}) =>
        /\ 0 <= aiops.threshold_related
        /\ aiops.threshold_related < aiops.threshold_known
        /\ aiops.threshold_known <= 100

(***************************************************************************)
(* Properties of the fingerprint.                                          *)
(***************************************************************************)
\* Two documents with the same members, in whatever order.
SameDocument(a, b) == { a[i] : i \in 1..Len(a) } = { b[i] : i \in 1..Len(b) }

\* C25: the fingerprint does not depend on the order of the keys: the call's
\* fingerprint equals that of every stored row holding the same document, in
\* whatever key order it came (and differs from that of every other document);
\* the fingerprint the gate checked is the one stored with the row the call
\* inserts.
C25_FingerprintKeyOrderIndependent ==
    \A c \in Callers : ing[c].pc # "idle" =>
        /\ ing[c].log_hash = LogHash(ing[c].raw_log)
        /\ \A row \in logs :
             SameDocument(ing[c].raw_log, row.raw_json) <=> ing[c].log_hash = row.log_hash
        /\ \A raw \in RawLogs :
             SameDocument(ing[c].raw_log, raw) => LogHash(raw) = ing[c].log_hash
        /\ (ing[c].pc = "done" /\ ing[c].log_id # NoId) =>
             \E row \in logs : /\ row.log_id = ing[c].log_id
                               /\ row.log_hash = ing[c].log_hash
                               /\ row.raw_json = ing[c].raw_log

\* C25 witness: a document that came with its keys out of order was stored, under
\* the fingerprint of its key-sorted form.
C25_Witness ==
    /\ ing["r1"].pc = "done" /\ ing["r1"].log_id # NoId
    /\ JsonDumps(ing["r1"].raw_log, TRUE) # ing["r1"].raw_log
    /\ \E row \in logs : /\ row.log_id = ing["r1"].log_id
                         /\ row.raw_json = ing["r1"].raw_log
                         /\ row.log_hash = Sha256(JsonDumps(ing["r1"].raw_log, TRUE))

(***************************************************************************)
(* Properties of the order of the ingest steps.                            *)
(***************************************************************************)
\* The call of c has invoked none of normalizer, embedder and insert.
NothingInvoked(f) ==
    /\ f.normalized_log = NoNormalizedLog /\ f.jira_id = NoJira /\ f.log_id = NoId
    /\ \A i \in 1..Len(f.detail) :
         f.detail[i] \notin {"Normalization failed", "Embedding failed", "Insert failed"}

\* In the state: a call at the check has invoked nothing, a call past the check
\* found no row with its fingerprint, a rejected call has invoked nothing.
CheckComesFirst ==
    \A c \in Callers :
        /\ ing[c].pc = "check" => NothingInvoked(ing[c])
        /\ ing[c].pc \in {"normalize", "embed", "insert"} =>
             \A row \in logs : row.log_hash # ing[c].log_hash
        /\ (ing[c].pc = "done" /\ IsDuplicateRejection(ing[c].detail)) => NothingInvoked(ing[c])

\* In the step: the normalizer's result, the embedder's failure and the new row
\* come from a call that has passed the check.
WorkOnlyAfterCheck ==
    \A c \in Callers :
        (ing'[c] # ing[c] /\ ing[c].pc \in {"idle", "done", "check"}) =>
            /\ logs' = logs
            /\ NothingInvoked(ing'[c])

\* C26: in every ingest call the fingerprint check comes before the normalizer,
\* the embedder and the insert; when it finds the fingerprint, none of the three
\* is invoked for that call.
C26_CheckBeforeWork == [][CheckComesFirst' /\ WorkOnlyAfterCheck]_vars

\* C26 witness: a call was rejected at the check with one row stored, having
\* invoked nothing.
C26_Witness ==
    /\ ing["r1"].pc = "done" /\ IsDuplicateRejection(ing["r1"].detail)
    /\ NothingInvoked(ing["r1"])
    /\ Cardinality(logs) = 1
    /\ \E row \in logs : row.log_hash = ing["r1"].log_hash

(***************************************************************************)
(* Properties of the job status a poll returns.                            *)
(***************************************************************************)
\* C27: whatever the worker is doing when the status is polled, the response is
\* consistent: processed <= total_logs and successful + duplicates + failed =
\* processed = number of per-record results.
C27_PollSeesConsistentCounters ==
    snap.status_code = 200 => CountersAgree(snap.body)

(***************************************************************************)
(* Properties of the job's status.                                         *)
(***************************************************************************)
\* The moves of the status in one step.
StatusMoves ==
    \/ job'.status = job.status
    \/ job.status = "none" /\ job'.status = "pending"
    \/ job.status = "pending" /\ job'.status = "in_progress"
    \/ job.status = "in_progress" /\ job'.status \in {"completed", "failed"}

\* The terminal status is completed when a record was stored or none failed or
\* was a duplicate, and failed otherwise.
TerminalStatusRule ==
    job.status \in {"completed", "failed"} =>
        /\ job.processed = job.total_logs
        /\ job.status = "completed" <=>
             (job.successful > 0 \/ (job.failed = 0 /\ job.duplicates = 0))

C29_NoDanglingEdges ==
    \A e \in edges : HasNode(e.from_node) /\ HasNode(e.to_node)

(***************************************************************************)
(* Properties of the length of the enhanced list.                          *)
(***************************************************************************)
\* C30: whatever the model answers, the list the rerank returns holds each
\* candidate at most once and is not longer than the candidate list, also when
\* the answer names a candidate twice or by both its full and its short id.
C30_EachCandidateAtMostOnce ==
    srch.pc \in {"persist", "enrich", "done"} =>
        /\ Len(srch.final_results) <= Len(srch.matches)
        /\ \A k, l \in 1..Len(srch.final_results) :
             k # l => srch.final_results[k].jira_id # srch.final_results[l].jira_id

====
